---------------------------- MODULE Spec2Model ----------------------------
(***************************************************************************)
(* A model of dynamo-client: the key-template engine (TemplateKey), the    *)
(* table schema registry (DynamoSchema) and the command builders.          *)
(*                                                                         *)
(* Strings are sequences of chunks.  A chunk is a TLA+ string standing for *)
(* a piece of text the code never splits: a single character ("{", "}",   *)
(* "?", "#", "_", a letter, a digit) or a run of characters that no regular *)
(* expression of the code can cut.  Two strings are equal exactly when     *)
(* their chunk sequences are equal.                                        *)
(***************************************************************************)
EXTENDS Integers, Sequences, FiniteSets, TLC

VARIABLES
    templateKey,    \* the TemplateKey under test (state after its constructor)
    genValues,      \* the argument of the last generate call
    genResult,      \* what the last generate call returned or threw
    snakeFn,        \* the snake-case function under test
    snakeTrace,     \* an input string, then the results of applying snakeFn
    schema,         \* the table schema registry (a DynamoSchema)
    nameKey,        \* the argument of the last getAttributeName call
    nameResult,     \* what the last getAttributeName call returned
    update,         \* an UpdateBuilder: its item and its updateKeys
    get,            \* a GetBuilder: its item and its getKeys
    query,          \* a QueryBuilder: its clause lists, maps, limit and index
    put,            \* a PutBuilder: its item
    delete,         \* a DeleteBuilder: its item and its deleteKeys
    transaction,    \* a TransactionBuilder: its item and its writeTransaction
    builders,       \* the builders a DynamoORM created, by address
    handles,        \* the addresses its callers were handed, oldest first
    env,            \* process.env.AWS_REGION
    configResult,   \* what the last call that configures the registry did
    table,          \* the items the store holds, by key
    sent,           \* the requests handed to client.send, oldest first
    answers,        \* what client.send did with each of them
    execResult,     \* what the last exec call returned
    history,        \* the calls that stored something, oldest first
    ncalls          \* the number of calls made on the builder

templateVars == <<templateKey, genValues, genResult>>
snakeVars == <<snakeFn, snakeTrace>>
nameVars == <<nameKey, nameResult>>
writeVars == <<put, delete, transaction>>
registryVars == <<env, configResult>>
ormVars == <<builders, handles>>
builderVars == <<update, get, query, writeVars, registryVars, ormVars, table, sent, answers,
                 execResult, history, ncalls>>
vars == <<templateKey, genValues, genResult, snakeFn, snakeTrace, schema,
          nameKey, nameResult, update, get, query, put, delete, transaction,
          builders, handles, env, configResult, table, sent, answers, execResult, history, ncalls>>

\* A value that no call has produced yet.
NotCalled == [tag |-> "not called"]

\* JavaScript values that may be of more than one type are tagged records;
\* a value that is always a string is the bare chunk sequence.
Undefined == [type |-> "undefined"]
Str(s) == [type |-> "string", str |-> s]

\* The variables of the parts of the program a specification leaves out.
IdleTemplate == templateKey = NotCalled /\ genValues = NotCalled /\ genResult = NotCalled
IdleSnake == snakeFn = NotCalled /\ snakeTrace = NotCalled
IdleSchema == schema = NotCalled
IdleName == nameKey = NotCalled /\ nameResult = NotCalled
IdleUpdate == update = NotCalled
IdleGet == get = NotCalled
IdleQuery == query = NotCalled
IdlePut == put = NotCalled
IdleDelete == delete = NotCalled
IdleTransaction == transaction = NotCalled
IdleRegistry == env = NotCalled /\ configResult = NotCalled
IdleOrm == builders = NotCalled /\ handles = NotCalled
IdleClient ==
    /\ table = NotCalled /\ sent = NotCalled /\ answers = NotCalled
    /\ execResult = NotCalled /\ history = NotCalled /\ ncalls = 0
IdleBuilders ==
    /\ IdleUpdate /\ IdleGet /\ IdleQuery /\ IdlePut /\ IdleDelete
    /\ IdleTransaction /\ IdleRegistry /\ IdleOrm /\ IdleClient

(***************************************************************************)
(* Bounds of the model.                                                    *)
(***************************************************************************)
MaxParts == 3
MaxSnakeLen == 4
MaxNameLen == 2
MaxCalls == 4
MaxQueryCalls == 3
MaxTransactionCalls == 3
MaxConfigCalls == 3
MaxBuilders == 2
MaxOrmCalls == 4

(***************************************************************************)
(* Template literals.                                                      *)
(***************************************************************************)
\* The characters matched by \w that the model uses.  "constructor" is one
\* chunk: the name of a property every object inherits from Object.prototype.
WordChars == {"x", "y", "v", "constructor", "userId", "orderId", "day"}

IsWordChar(c) == c \in WordChars

\* Pieces the template literals of the model are assembled from.
TemplateParts ==
    { <<"{", "x", "}">>, <<"{", "?", "x", "}">>,
      <<"{", "y", "}">>, <<"{", "?", "y", "}">>,
      <<"{", "constructor", "}">>, <<"{", "?", "constructor", "}">>,
      <<"{">>, <<"}">>, <<"#">>, <<"x">> }

RECURSIVE Flatten(_)
Flatten(ps) == IF ps = <<>> THEN <<>> ELSE Head(ps) \o Flatten(Tail(ps))

SeqsUpTo(S, n) == UNION { [1..k -> S] : k \in 0..n }

Templates == { Flatten(ps) : ps \in SeqsUpTo(TemplateParts, MaxParts) }

\* Value maps handed to generate: own keys among x and y.
OwnKeys == { <<"x">>, <<"y">> }
SuppliedValues == { <<>>, <<"v">>, <<"{", "v", "}">> }
ValueMaps == UNION { [D -> SuppliedValues] : D \in SUBSET OwnKeys }

\* What a plain object inherits from Object.prototype, as the text that
\* String.prototype.replace makes of it.
ObjectPrototype ==
    [ k \in { <<"constructor">> } |-> <<"function Object() { [native code] }">> ]

\* JavaScript's `key in values`: own and inherited properties.
In(key, values) == key \in DOMAIN values \/ key \in DOMAIN ObjectPrototype

\* JavaScript's `values[key] ?? ""`.
Lookup(values, key) ==
    IF key \in DOMAIN values THEN values[key]
    ELSE IF key \in DOMAIN ObjectPrototype THEN ObjectPrototype[key]
    ELSE <<>>

RECURSIVE WordRunEnd(_, _)
\* The last index of the longest run of word characters that starts at k
\* (k - 1 when there is none): the greedy \w+.
WordRunEnd(s, k) ==
    IF k <= Len(s) /\ IsWordChar(s[k]) THEN WordRunEnd(s, k + 1) ELSE k - 1

\* A match of /\{(\??)(\w+)\}/ that starts at index i, if there is one.
PlaceholderAt(s, i) ==
    LET hasFlag == i + 1 <= Len(s) /\ s[i + 1] = "?"
        k == IF hasFlag THEN i + 2 ELSE i + 1
        e == WordRunEnd(s, k)
    IN  IF s[i] = "{" /\ e >= k /\ e + 1 <= Len(s) /\ s[e + 1] = "}"
        THEN [matched |-> TRUE, optionalFlag |-> IF hasFlag THEN "?" ELSE "",
              key |-> SubSeq(s, k, e), next |-> e + 2]
        ELSE [matched |-> FALSE, optionalFlag |-> "", key |-> <<>>, next |-> i + 1]

RECURSIVE ParseFrom(_, _, _, _)
\* The loop of parseTemplate: regex.exec from index i on.
ParseFrom(s, i, required, optional) ==
    IF i > Len(s) THEN [requiredKeys |-> required, optionalKeys |-> optional]
    ELSE LET m == PlaceholderAt(s, i)
         IN  IF ~m.matched THEN ParseFrom(s, m.next, required, optional)
             ELSE IF m.optionalFlag = "?"
                  THEN ParseFrom(s, m.next, required, Append(optional, m.key))
                  ELSE ParseFrom(s, m.next, Append(required, m.key), optional)

parseTemplate(template) == ParseFrom(template, 1, <<>>, <<>>)

\* new TemplateKey(template, attrName)
NewTemplateKey(template, attrName) ==
    LET keys == parseTemplate(template)
    IN  [kind |-> "TemplateKey", templateString |-> template,
         attrName |-> attrName, transform |-> Undefined,
         requiredKeys |-> keys.requiredKeys, optionalKeys |-> keys.optionalKeys]

RECURSIVE FirstMissing(_, _, _)
\* The validation loop of generate: the index in requiredKeys of the first
\* key that is not `in` values, 0 when every key is.
FirstMissing(required, i, values) ==
    IF i > Len(required) THEN 0
    ELSE IF ~In(required[i], values) THEN i
    ELSE FirstMissing(required, i + 1, values)

RECURSIVE ReplaceRequiredOnlyFrom(_, _, _)
\* A faulty replace whose pattern, /\{(\w+)\}/g, misses the optional flag: it
\* leaves every {?name} in place.
ReplaceRequiredOnlyFrom(s, i, values) ==
    IF i > Len(s) THEN <<>>
    ELSE LET m == PlaceholderAt(s, i)
         IN  IF m.matched /\ m.optionalFlag = ""
             THEN Lookup(values, m.key) \o ReplaceRequiredOnlyFrom(s, m.next, values)
             ELSE <<s[i]>> \o ReplaceRequiredOnlyFrom(s, i + 1, values)

RECURSIVE ReplaceFrom(_, _, _)
\* templateString.replace(/\{(\??)(\w+)\}/g, (_, _flag, key) => values[key] ?? "")
ReplaceFrom(s, i, values) ==
    IF i > Len(s) THEN <<>>
    ELSE LET m == PlaceholderAt(s, i)
         IN  IF m.matched THEN Lookup(values, m.key) \o ReplaceFrom(s, m.next, values)
             ELSE <<s[i]>> \o ReplaceFrom(s, m.next, values)

Returned(v) == [tag |-> "return", value |-> v]
Thrown(msg) == [tag |-> "throw", message |-> msg]

\* TemplateKey.generate(values)
generate(tk, values) ==
    LET missing == FirstMissing(tk.requiredKeys, 1, values)
    IN  IF missing # 0
        THEN Thrown(<<"Missing required value for ">> \o tk.requiredKeys[missing])
        ELSE Returned(ReplaceFrom(tk.templateString, 1, values))

(***************************************************************************)
(* The template engine on its own: a TemplateKey is constructed from a     *)
(* literal, then generate is called on it.                                 *)
(***************************************************************************)
InitTemplate ==
    /\ templateKey \in { NewTemplateKey(t, Undefined) : t \in Templates }
    /\ genValues = NotCalled
    /\ genResult = NotCalled
    /\ IdleSnake /\ IdleSchema /\ IdleName /\ IdleBuilders

Generate ==
    /\ genResult = NotCalled
    /\ \E values \in ValueMaps :
          /\ genValues' = values
          /\ genResult' = generate(templateKey, values)
    /\ UNCHANGED <<templateKey, snakeVars, schema, nameVars, builderVars>>

NextTemplate == Generate

SpecTemplate == InitTemplate /\ [][NextTemplate]_vars


(***************************************************************************)
(* Claims about the template engine (checked under SpecTemplate).          *)
(***************************************************************************)
\* The keys of a sequence of keys, as a set.
KeySet(keys) == { keys[i] : i \in 1..Len(keys) }

\* Whether s holds text that reads as a placeholder, {name} or {?name}.
HasPlaceholder(s) == \E i \in 1..Len(s) : PlaceholderAt(s, i).matched

RECURSIVE LiteralTextFrom(_, _)
\* The text of a literal outside its placeholders.
LiteralTextFrom(s, i) ==
    IF i > Len(s) THEN <<>>
    ELSE LET m == PlaceholderAt(s, i)
         IN  IF m.matched THEN LiteralTextFrom(s, m.next)
             ELSE <<s[i]>> \o LiteralTextFrom(s, m.next)

HasBrace(s) == \E i \in 1..Len(s) : s[i] \in {"{", "}"}

RECURSIVE FirstAbsent(_, _, _)
\* The first key of `required`, from index i on, that `values` does not
\* supply (<<>> when it supplies them all).
FirstAbsent(required, i, values) ==
    IF i > Len(required) THEN <<>>
    ELSE IF required[i] \notin DOMAIN values THEN required[i]
    ELSE FirstAbsent(required, i + 1, values)

\* Whether the value map supplies every required key of the template.
SuppliesRequired(tk, values) == KeySet(tk.requiredKeys) \subseteq DOMAIN values

RECURSIVE SubstituteFrom(_, _, _)
\* The literal with every placeholder replaced by the supplied value of its
\* name, or by the empty string when the name is not supplied.
SubstituteFrom(s, i, values) ==
    IF i > Len(s) THEN <<>>
    ELSE LET m == PlaceholderAt(s, i)
         IN  IF m.matched
             THEN (IF m.key \in DOMAIN values THEN values[m.key] ELSE <<>>)
                      \o SubstituteFrom(s, m.next, values)
             ELSE <<s[i]>> \o SubstituteFrom(s, m.next, values)

\* C1: when the value map misses a required key, generate throws the
\* missing-required-value error that names the first missing required key in
\* parse order, and returns nothing.
C1_MissingRequiredThrows ==
    (genResult # NotCalled /\ ~SuppliesRequired(templateKey, genValues)) =>
        genResult = Thrown(<<"Missing required value for ">>
                              \o FirstAbsent(templateKey.requiredKeys, 1, genValues))

\* C2 (as stated): when the value map supplies every required key, generate
\* returns and its output holds no {name} or {?name} placeholder.
C2_NoPlaceholderLeft ==
    (genResult # NotCalled /\ SuppliesRequired(templateKey, genValues)) =>
        /\ genResult.tag = "return"
        /\ ~HasPlaceholder(genResult.value)

\* The case C2 holds in: neither the text of the literal outside its
\* placeholders nor a supplied value holds a brace.
BraceFree(tk, values) ==
    /\ ~HasBrace(LiteralTextFrom(tk.templateString, 1))
    /\ \A k \in DOMAIN values : ~HasBrace(values[k])

\* C2 (amended): when the value map supplies every required key, generate
\* returns; and when moreover neither the literal's text outside its
\* placeholders nor any supplied value holds a brace, the output holds no
\* {name} or {?name} placeholder.
C2_NoPlaceholderLeftBraceFree ==
    (genResult # NotCalled /\ SuppliesRequired(templateKey, genValues)) =>
        /\ genResult.tag = "return"
        /\ BraceFree(templateKey, genValues) => ~HasPlaceholder(genResult.value)

\* C2 witness: generate returned for a brace-free literal that has a
\* required and an optional placeholder, the required one supplied and the
\* optional one not.
C2_Witness ==
    /\ genResult # NotCalled
    /\ genResult.tag = "return"
    /\ BraceFree(templateKey, genValues)
    /\ templateKey.requiredKeys = << <<"x">> >>
    /\ templateKey.optionalKeys = << <<"y">> >>
    /\ DOMAIN genValues = { <<"x">> }

\* C3: when generate does not fail for a missing key, its output is the
\* literal with every placeholder occurrence replaced, left to right, by the
\* supplied value of its name, or by the empty string when the name is not
\* supplied (which for an optional name is no error); the text outside the
\* placeholders is copied unchanged.
C3_SubstitutesEveryPlaceholder ==
    (genResult # NotCalled /\ SuppliesRequired(templateKey, genValues)) =>
        genResult = Returned(SubstituteFrom(templateKey.templateString, 1, genValues))

\* C4: the required keys and the optional keys of a constructed TemplateKey
\* are disjoint, and every placeholder name of the literal is in one of them.
C4_KeySetsDisjoint ==
    /\ KeySet(templateKey.requiredKeys) \cap KeySet(templateKey.optionalKeys) = {}
    /\ \A i \in 1..Len(templateKey.templateString) :
          LET m == PlaceholderAt(templateKey.templateString, i)
          IN  m.matched =>
                 m.key \in KeySet(templateKey.requiredKeys)
                              \cup KeySet(templateKey.optionalKeys)


(***************************************************************************)
(* Snake-casing.  DynamoSchema.getAttributeName calls lodash's snakeCase;  *)
(* the legacy QueryBuilder and SchemaBuilder have their own toSnakeCase.   *)
(***************************************************************************)
LowerChars ==
    {"a", "b", "d", "k", "pk", "sk", "status", "order", "ate", "day", "ey"}
UpperChars == {"A", "B", "D", "K"}
DigitChars == {"1"}
\* lodash's rsBreakRange holds every ASCII character that is no letter and
\* no digit; the model uses the underscore.
BreakChars == {"_"}

\* String.prototype.toLowerCase, chunk by chunk.
LowerOf(c) ==
    CASE c = "A" -> "a"
      [] c = "B" -> "b"
      [] c = "D" -> "d"
      [] c = "K" -> "k"
      [] OTHER -> c

toLowerCase(s) == [i \in 1..Len(s) |-> LowerOf(s[i])]

\* The strings the snake-case functions are applied to.
SnakeAlphabet == {"a", "A", "B", "1", "_"}
SnakeStrings == SeqsUpTo(SnakeAlphabet, MaxSnakeLen)

RECURSIVE RunEnd(_, _, _)
\* The last index of the longest run of characters of class S that starts
\* at k (k - 1 when there is none).
RunEnd(s, k, S) ==
    IF k <= Len(s) /\ s[k] \in S THEN RunEnd(s, k + 1, S) ELSE k - 1

\* lodash reHasUnicodeWord:
\* /[a-z][A-Z]|[A-Z]{2}[a-z]|[0-9][a-zA-Z]|[a-zA-Z][0-9]|[^a-zA-Z0-9 ]/
hasUnicodeWord(s) ==
    LET letter == LowerChars \cup UpperChars
    IN  \E i \in 1..Len(s) :
          \/ s[i] \notin letter \cup DigitChars
          \/ /\ i + 1 <= Len(s)
             /\ \/ s[i] \in LowerChars /\ s[i + 1] \in UpperChars
                \/ s[i] \in DigitChars /\ s[i + 1] \in letter
                \/ s[i] \in letter /\ s[i + 1] \in DigitChars
          \/ /\ i + 2 <= Len(s)
             /\ s[i] \in UpperChars /\ s[i + 1] \in UpperChars
             /\ s[i + 2] \in LowerChars

\* lodash reAsciiWord, /[^\x00-\x2f\x3a-\x40\x5b-\x60\x7b-\x7f]+/g, anchored
\* at i: the last index of the run of letters and digits (0: no match).
asciiWordEnd(s, i) ==
    LET e == RunEnd(s, i, LowerChars \cup UpperChars \cup DigitChars)
    IN  IF e >= i THEN e ELSE 0

\* lodash reUnicodeWord anchored at i: the last index of the match of the
\* first alternative that matches (0: no match).  The alternatives, in order:
\*   1  Upper? Lower+ (?= Break | Upper | $)
\*   2  Upper+ (?= Break | Upper Lower | $)
\*   3  Upper? Lower+
\*   4  Upper+
\*   5, 6  ordinals (1ST, 2nd, ...): need letters the model does not put
\*         after a digit
\*   7  \d+
unicodeWordEnd(s, i) ==
    LET n == Len(s)
        isU(k) == k <= n /\ s[k] \in UpperChars
        isL(k) == k <= n /\ s[k] \in LowerChars
        isD(k) == k <= n /\ s[k] \in DigitChars
        isBreak(k) == k <= n /\ s[k] \in BreakChars
        lowerStart == IF isU(i) /\ isL(i + 1) THEN i + 1 ELSE i
        lowerEnd == RunEnd(s, lowerStart, LowerChars)
        upperEnd == RunEnd(s, i, UpperChars)
        digitEnd == RunEnd(s, i, DigitChars)
    IN  IF isL(lowerStart)
           /\ (isBreak(lowerEnd + 1) \/ isU(lowerEnd + 1) \/ lowerEnd + 1 > n)
        THEN lowerEnd
        ELSE IF isU(i) /\ (isBreak(upperEnd + 1) \/ upperEnd + 1 > n)
        THEN upperEnd
        ELSE IF isU(i) /\ upperEnd > i /\ isL(upperEnd + 1)
        THEN upperEnd - 1
        ELSE IF isL(lowerStart) THEN lowerEnd
        ELSE IF isU(i) THEN upperEnd
        ELSE IF isD(i) THEN digitEnd
        ELSE 0

RECURSIVE wordsFrom(_, _, _)
\* lodash words(string): string.match of reUnicodeWord or reAsciiWord.
wordsFrom(s, i, unicode) ==
    IF i > Len(s) THEN <<>>
    ELSE LET e == IF unicode THEN unicodeWordEnd(s, i) ELSE asciiWordEnd(s, i)
         IN  IF e = 0 THEN wordsFrom(s, i + 1, unicode)
             ELSE <<SubSeq(s, i, e)>> \o wordsFrom(s, e + 1, unicode)

words(s) == wordsFrom(s, 1, hasUnicodeWord(s))

RECURSIVE compound(_, _)
\* lodash createCompounder with snakeCase's callback:
\* result + (index ? '_' : '') + word.toLowerCase()
compound(ws, index) ==
    IF index > Len(ws) THEN <<>>
    ELSE (IF index > 1 THEN <<"_">> ELSE <<>>) \o toLowerCase(ws[index])
            \o compound(ws, index + 1)

\* lodash snakeCase(string)
snakeCase(s) == compound(words(s), 1)

RECURSIVE underscoreAfterUpper(_, _)
\* A faulty replacement, "$1_": the underscore lands after the letter.
underscoreAfterUpper(s, i) ==
    IF i > Len(s) THEN <<>>
    ELSE (IF s[i] \in UpperChars THEN <<s[i], "_">> ELSE <<s[i]>>)
            \o underscoreAfterUpper(s, i + 1)

RECURSIVE underscoreUpper(_, _)
\* key.replace(/([A-Z])/g, "_$1")
underscoreUpper(s, i) ==
    IF i > Len(s) THEN <<>>
    ELSE (IF s[i] \in UpperChars THEN <<"_", s[i]>> ELSE <<s[i]>>)
            \o underscoreUpper(s, i + 1)

\* A faulty toSnakeCase that forgets toLowerCase().
toSnakeCaseKeepCase(key) == underscoreUpper(key, 1)

\* The legacy QueryBuilder.toSnakeCase and SchemaBuilder.toSnakeCase.
toSnakeCase(key) == toLowerCase(underscoreUpper(key, 1))

Last(seq) == seq[Len(seq)]

InitSnake ==
    /\ snakeFn \in {"snakeCase", "toSnakeCase"}
    /\ snakeTrace \in { <<x>> : x \in SnakeStrings }
    /\ IdleTemplate /\ IdleSchema /\ IdleName /\ IdleBuilders

\* lodash snakeCase applied to the last result.
ApplySnakeCase ==
    /\ snakeFn = "snakeCase"
    /\ Len(snakeTrace) < 3
    /\ snakeTrace' = Append(snakeTrace, snakeCase(Last(snakeTrace)))
    /\ UNCHANGED <<templateVars, snakeFn, schema, nameVars, builderVars>>

\* The legacy toSnakeCase applied to the last result.
ApplyToSnakeCase ==
    /\ snakeFn = "toSnakeCase"
    /\ Len(snakeTrace) < 3
    /\ snakeTrace' = Append(snakeTrace, toSnakeCase(Last(snakeTrace)))
    /\ UNCHANGED <<templateVars, snakeFn, schema, nameVars, builderVars>>

NextSnake == ApplySnakeCase \/ ApplyToSnakeCase

SpecSnake == InitSnake /\ [][NextSnake]_vars


(***************************************************************************)
(* Claims about snake-casing (checked under SpecSnake).                    *)
(***************************************************************************)
RECURSIVE StructuralFrom(_, _)
\* The rule of the specification: '_' before every upper-case letter that is
\* not at position 0, then everything in lower case.
StructuralFrom(s, i) ==
    IF i > Len(s) THEN <<>>
    ELSE (IF s[i] \in UpperChars /\ i > 1 THEN <<"_", LowerOf(s[i])>>
          ELSE <<LowerOf(s[i])>>) \o StructuralFrom(s, i + 1)

\* A camelCase name: letters only, the first one lower-case, no two
\* upper-case letters next to each other.
IsCamelCase(s) ==
    /\ \A i \in 1..Len(s) : s[i] \in LowerChars \cup UpperChars
    /\ Len(s) > 0 => s[1] \in LowerChars
    /\ \A i \in 1..(Len(s) - 1) : ~(s[i] \in UpperChars /\ s[i + 1] \in UpperChars)

\* C7 (as stated): for every input string the snake-case derivation puts '_'
\* before every upper-case letter that is not at position 0 and lower-cases
\* the string, with no special treatment of acronyms or digits.
C7_SnakeCaseIsStructural ==
    Len(snakeTrace) >= 2 => snakeTrace[2] = StructuralFrom(snakeTrace[1], 1)

\* C7 (amended): for every camelCase input (letters only, first letter
\* lower-case, no two adjacent upper-case letters) lodash's snakeCase and the
\* legacy toSnakeCase both put '_' before every upper-case letter and
\* lower-case the string.
C7_SnakeCaseOfCamelCase ==
    (Len(snakeTrace) >= 2 /\ IsCamelCase(snakeTrace[1])) =>
        snakeTrace[2] = StructuralFrom(snakeTrace[1], 1)

\* C7 witness: a snake-case function was applied to a camelCase name with an
\* upper-case letter in it.
C7_Witness ==
    /\ Len(snakeTrace) = 2
    /\ IsCamelCase(snakeTrace[1])
    /\ \E i \in 1..Len(snakeTrace[1]) : snakeTrace[1][i] \in UpperChars

\* C8: snake-casing is idempotent: applied to its own result it returns
\* that result (for camelCase input, and for every other input of the model).
C8_SnakeCaseIdempotent ==
    Len(snakeTrace) >= 3 => snakeTrace[3] = snakeTrace[2]

\* C8 witness: a snake-case function was applied twice, starting from a
\* camelCase name that the first application changed.
C8_Witness ==
    /\ Len(snakeTrace) = 3
    /\ IsCamelCase(snakeTrace[1])
    /\ snakeTrace[2] # snakeTrace[1]

(***************************************************************************)
(* The table schema registry.                                              *)
(***************************************************************************)
\* new Attribute(attrName, transform)
NewAttribute(attrName, transform) ==
    [kind |-> "Attribute", attrName |-> attrName, transform |-> transform]

\* The registry after DynamoSchema.table(name).region(region).schema(definition, options)
NewSchema(name, region, definition, options) ==
    [tableName |-> name, regionName |-> region,
     schemaDefinition |-> definition, schemaOptions |-> options]

\* this.schemaOptions?.transform?.toSnakeCase
SnakeOption(options) ==
    /\ options # Undefined
    /\ options.transform # Undefined
    /\ options.transform.toSnakeCase = TRUE

\* this.schemaDefinition[key]
FieldOf(definition, key) ==
    IF key \in DOMAIN definition THEN definition[key] ELSE Undefined

\* DynamoSchema.getAttributeName(key)
getAttributeName(sch, key) ==
    LET field == FieldOf(sch.schemaDefinition, key)
        attrName == IF field # Undefined /\ field.attrName # Undefined
                    THEN field.attrName.str ELSE key
    IN  IF SnakeOption(sch.schemaOptions) THEN snakeCase(attrName) ELSE attrName

\* The key the legacy SchemaBuilder.build stores a value under.
buildFieldKey(definition, options, key) ==
    LET field == FieldOf(definition, key)
    IN  IF field # Undefined /\ field.attrName # Undefined
        THEN field.attrName.str
        ELSE IF SnakeOption(options) THEN toSnakeCase(key) ELSE key

NameAlphabet == {"a", "A", "_"}
NameStrings == SeqsUpTo(NameAlphabet, MaxNameLen)
\* A logical key that no schema of SpecAttributeName declares.
UndeclaredKey == <<"order", "D", "ate">>

SchemaOptionsSet ==
    { Undefined, [transform |-> [toSnakeCase |-> TRUE]],
      [transform |-> [toSnakeCase |-> FALSE]] }

\* Registries with one plain field.
OneFieldSchemas ==
    { NewSchema(<<"orders">>, <<"us-east-1">>,
                [k \in {key} |-> NewAttribute(attrName, Undefined)], options) :
        key \in NameStrings \ {<<>>},
        attrName \in { Str(n) : n \in NameStrings } \cup {Undefined},
        options \in SchemaOptionsSet }

InitAttributeName ==
    /\ schema \in OneFieldSchemas
    /\ nameKey = NotCalled
    /\ nameResult = NotCalled
    /\ IdleTemplate /\ IdleSnake /\ IdleBuilders

GetAttributeName ==
    /\ nameResult = NotCalled
    /\ \E key \in DOMAIN schema.schemaDefinition \cup {UndeclaredKey} :
          /\ nameKey' = key
          /\ nameResult' = [fn |-> "getAttributeName",
                            value |-> getAttributeName(schema, key)]
    /\ UNCHANGED <<templateVars, snakeVars, schema, builderVars>>

\* The legacy SchemaBuilder over the same definition and options.
BuildFieldKey ==
    /\ nameResult = NotCalled
    /\ \E key \in DOMAIN schema.schemaDefinition \cup {UndeclaredKey} :
          /\ nameKey' = key
          /\ nameResult' = [fn |-> "build",
                            value |-> buildFieldKey(schema.schemaDefinition,
                                                    schema.schemaOptions, key)]
    /\ UNCHANGED <<templateVars, snakeVars, schema, builderVars>>

NextAttributeName == GetAttributeName \/ BuildFieldKey

SpecAttributeName == InitAttributeName /\ [][NextAttributeName]_vars

(***************************************************************************)
(* Claims about wire names (checked under SpecAttributeName).              *)
(***************************************************************************)
\* Whether the field of the key declares an explicit wire name.
DeclaresWireName(sch, key) ==
    /\ key \in DOMAIN sch.schemaDefinition
    /\ sch.schemaDefinition[key].attrName # Undefined

\* C6: getAttributeName(key) returns the explicit wire name of the field
\* when it declares one; otherwise the logical key, snake-cased exactly when
\* the snake-case option is set and unchanged when it is not.
C6_ExplicitWireNameWins ==
    (nameResult # NotCalled /\ nameResult.fn = "getAttributeName") =>
        nameResult.value =
            IF DeclaresWireName(schema, nameKey)
            THEN schema.schemaDefinition[nameKey].attrName.str
            ELSE IF SnakeOption(schema.schemaOptions) THEN snakeCase(nameKey)
            ELSE nameKey


(***************************************************************************)
(* JavaScript objects whose key order the code reads (item, key maps, the  *)
(* names and values maps, the input of keys(...)) are sequences of         *)
(* <<key, value>> pairs in insertion order.  None of the keys of the model *)
(* is an integer index, which JavaScript would enumerate first.            *)
(***************************************************************************)
EmptyObject == <<>>

\* Object.keys(o)
ObjectKeys(o) == [i \in 1..Len(o) |-> o[i][1]]

Has(o, k) == \E i \in 1..Len(o) : o[i][1] = k

\* o[k], for a key the object has.
Get(o, k) == o[CHOOSE i \in 1..Len(o) : o[i][1] = k][2]

\* A faulty assignment that leaves a key the object has as it is.
PutKeepFirst(o, k, v) ==
    IF Has(o, k) THEN o ELSE Append(o, <<k, v>>)

\* o[k] = v: a key the object has keeps its place.
Put(o, k, v) ==
    IF Has(o, k) THEN [i \in 1..Len(o) |-> IF o[i][1] = k THEN <<k, v>> ELSE o[i]]
    ELSE Append(o, <<k, v>>)

\* The object handed to a template field: a map from variable names to
\* strings, whose key order nothing reads.
Variables(props) == [type |-> "object", props |-> props]
Num(n) == [type |-> "number", num |-> n]
Fn(name) == [type |-> "function", name |-> name]

\* The transform of TableSchema.date: new Date(value).toISOString(), for a
\* date-only string (which JavaScript reads as midnight UTC).
ApplyTransform(transform, value) ==
    IF transform.name = "toISOString" /\ value.type = "string"
    THEN Str(value.str \o <<"T00:00:00.000Z">>)
    ELSE value

(***************************************************************************)
(* The registry the builders of the model are created from.                *)
(***************************************************************************)
pk == <<"pk">>
sk == <<"sk">>
status == <<"status">>
state == <<"state">>
orderDate == <<"order", "D", "ate">>
dayKey == <<"day", "K", "ey">>

\* attribute.template(template): the TemplateKey takes the wire name of the
\* attribute and nothing else of it.
Template(attribute, template) == NewTemplateKey(template, attribute.attrName)

\* { pk: TableSchema.pk().template("USER#{userId}"),
\*   sk: TableSchema.sk().template("ORDER#{?orderId}"),
\*   status: TableSchema.string(), state: TableSchema.string("status"),
\*   orderDate: TableSchema.date(),
\*   dayKey: TableSchema.date().template("DAY#{day}") }
BuilderDefinition ==
    (pk :> NewTemplateKey(<<"USER#", "{", "userId", "}">>, Undefined))
    @@ (sk :> NewTemplateKey(<<"ORDER#", "{", "?", "orderId", "}">>, Undefined))
    @@ (status :> NewAttribute(Undefined, Undefined))
    @@ (state :> NewAttribute(Str(status), Undefined))
    @@ (orderDate :> NewAttribute(Undefined, Fn("toISOString")))
    @@ (dayKey :> Template(NewAttribute(Undefined, Fn("toISOString")),
                           <<"DAY#", "{", "day", "}">>))

BuilderSchemas ==
    { NewSchema(<<"orders">>, <<"us-east-1">>, BuilderDefinition, options) :
        options \in {Undefined, [transform |-> [toSnakeCase |-> TRUE]]} }

Day2 == Variables(<<"day">> :> <<"2024-01-02">>)
UserId42 == Variables(<<"userId">> :> <<"42">>)
OrderId7 == Variables(<<"orderId">> :> <<"7">>)
NoVariables == Variables(<<>>)

(***************************************************************************)
(* Command: the base class of the get, put, update, delete and transaction *)
(* builders.                                                               *)
(***************************************************************************)
\* The value a builder stores for a field: the generated string of a
\* template field given an object, the raw value otherwise (the branch that
\* UpdateBuilder.keys, GetBuilder.keys and QueryBuilder.keys share).
ResolveKey(field, value) ==
    IF field.kind = "TemplateKey" /\ value.type = "object"
    THEN LET g == generate(field, value.props)
         IN  IF g.tag = "throw" THEN g ELSE Returned(Str(g.value))
    ELSE Returned(value)

\* A faulty resolution that never runs the transform of the field.
ResolveSetWithoutTransform(field, value) ==
    IF field.kind = "TemplateKey" /\ value.type = "object"
    THEN LET g == generate(field, value.props)
         IN  IF g.tag = "throw" THEN g ELSE Returned(Str(g.value))
    ELSE Returned(value)

\* The value Command.set stores: as ResolveKey, but with the transform of
\* the field applied to a value that is not generated.
ResolveSet(field, value) ==
    IF field.kind = "TemplateKey" /\ value.type = "object"
    THEN LET g == generate(field, value.props)
         IN  IF g.tag = "throw" THEN g ELSE Returned(Str(g.value))
    ELSE Returned(IF field.transform # Undefined
                  THEN ApplyTransform(field.transform, value) ELSE value)

\* Command.set(key, value) on the item: the item afterwards, and the error
\* when generate threw (the item is then as it was).
CommandSet(item, sch, key, value) ==
    LET field == sch.schemaDefinition[key]
        attrName == getAttributeName(sch, key)
        r == ResolveSet(field, value)
    IN  IF r.tag = "throw" THEN [item |-> item, outcome |-> r, stored |-> <<>>]
        ELSE [item |-> Put(item, attrName, r.value), outcome |-> Returned(Undefined),
              stored |-> << [op |-> "set", attrName |-> attrName, value |-> r.value] >>]

RECURSIVE KeysLoop(_, _, _, _, _)
\* The loop of UpdateBuilder.keys and GetBuilder.keys over Object.entries(input)
\* from entry i on: the key map afterwards, the error when generate threw
\* (the entries before it stay assigned), and the assignments made.
KeysLoop(keyMap, sch, input, i, stored) ==
    IF i > Len(input)
    THEN [keys |-> keyMap, outcome |-> Returned(Undefined), stored |-> stored]
    ELSE LET field == sch.schemaDefinition[input[i][1]]
             attrName == getAttributeName(sch, input[i][1])
             r == ResolveKey(field, input[i][2])
         IN  IF r.tag = "throw"
             THEN [keys |-> keyMap, outcome |-> r, stored |-> stored]
             ELSE KeysLoop(Put(keyMap, attrName, r.value), sch, input, i + 1,
                           Append(stored, [op |-> "keys", attrName |-> attrName,
                                           value |-> r.value]))

(***************************************************************************)
(* The store client (an external collaborator): send answers a request     *)
(* with an output, or fails with an error.                                 *)
(***************************************************************************)
ClientErrors == {<<"ThrottlingException">>, <<"TimeoutError">>}

\* What client.send may do with a request that, served, has the output.
ClientAnswers(output) == {Returned(output)} \cup {Thrown(e) : e \in ClientErrors}

\* The output of a served Put, Update, Delete or TransactWrite request.
WriteOutput == [Attributes |-> Undefined]

\* A faulty exec that swallows the error of send.
AwaitSendSwallowing(answer, result) == Returned(result)

\* What an exec that awaits client.send and then returns `result` resolves
\* or rejects with.
AwaitSend(answer, result) == IF answer.tag = "throw" THEN answer ELSE Returned(result)

(***************************************************************************)
(* UpdateBuilder                                                           *)
(***************************************************************************)
NewUpdateBuilder == [item |-> EmptyObject, updateKeys |-> EmptyObject]

RECURSIVE Join(_, _)
\* Array.prototype.join
Join(parts, separator) ==
    IF parts = <<>> THEN <<>>
    ELSE IF Len(parts) = 1 THEN parts[1]
    ELSE parts[1] \o separator \o Join(Tail(parts), separator)

\* A faulty render that joins the assignments with " and ", as the query
\* builder joins its clauses.
UpdateExpressionJoinedByAnd(item) ==
    <<"SET ">> \o Join([i \in 1..Len(item) |->
                           <<"#">> \o item[i][1] \o <<" = ", ":">> \o item[i][1]],
                       <<" and ">>)

\* `SET ${Object.keys(this.item).map((key) => `#${key} = :${key}`).join(", ")}`
UpdateExpression(item) ==
    <<"SET ">> \o Join([i \in 1..Len(item) |->
                           <<"#">> \o item[i][1] \o <<" = ", ":">> \o item[i][1]],
                       <<", ">>)

\* UpdateBuilder.command
UpdateCommand(builder, sch) ==
    [command |-> "Update",
     TableName |-> sch.tableName,
     Key |-> builder.updateKeys,
     UpdateExpression |-> UpdateExpression(builder.item),
     ExpressionAttributeNames |->
         [i \in 1..Len(builder.item) |->
             << <<"#">> \o builder.item[i][1], Str(builder.item[i][1]) >>],
     ExpressionAttributeValues |->
         [i \in 1..Len(builder.item) |->
             << <<":">> \o builder.item[i][1], builder.item[i][2] >>]]

\* The arguments of set in the model: a template field given its variables,
\* given none (generate throws), plain fields, two fields with one wire
\* name, and a date.
SetInputs ==
    { <<pk, UserId42>>, <<pk, NoVariables>>,
      <<status, Str(<<"done">>)>>, <<status, Str(<<"open">>)>>,
      <<state, Str(<<"done">>)>>,
      <<orderDate, Str(<<"2024-01-02">>)>> }

\* The arguments of keys in the model; the last one throws at its second entry.
KeysInputs ==
    { << <<pk, UserId42>> >>,
      << <<pk, Str(<<"USER#", "42">>)>> >>,
      << <<pk, UserId42>>, <<sk, OrderId7>> >>,
      << <<sk, NoVariables>>, <<pk, NoVariables>> >> }

InitUpdate ==
    /\ schema \in BuilderSchemas
    /\ update = NewUpdateBuilder
    /\ sent = <<>>
    /\ history = <<>>
    /\ execResult = NotCalled
    /\ ncalls = 0
    /\ table = NotCalled
    /\ answers = <<>>
    /\ IdleTemplate /\ IdleSnake /\ IdleName /\ IdleGet /\ IdleQuery
    /\ IdlePut /\ IdleDelete /\ IdleTransaction /\ IdleRegistry /\ IdleOrm

\* update.set(key, value)
UpdateSet ==
    /\ ncalls < MaxCalls
    /\ \E in \in SetInputs :
          LET r == CommandSet(update.item, schema, in[1], in[2])
          IN  /\ update' = [update EXCEPT !.item = r.item]
              /\ history' = history \o r.stored
    /\ ncalls' = ncalls + 1
    /\ UNCHANGED <<templateVars, snakeVars, schema, nameVars, writeVars, registryVars, ormVars,
                   get, query, table,
                   sent, answers, execResult>>

\* update.keys(input)
UpdateKeys ==
    /\ ncalls < MaxCalls
    /\ \E input \in KeysInputs :
          LET r == KeysLoop(update.updateKeys, schema, input, 1, <<>>)
          IN  /\ update' = [update EXCEPT !.updateKeys = r.keys]
              /\ history' = history \o r.stored
    /\ ncalls' = ncalls + 1
    /\ UNCHANGED <<templateVars, snakeVars, schema, nameVars, writeVars, registryVars, ormVars,
                   get, query, table,
                   sent, answers, execResult>>

\* update.exec(): client.send(this.command); resolves to nothing.
UpdateExec ==
    /\ ncalls < MaxCalls
    /\ sent' = Append(sent, UpdateCommand(update, schema))
    /\ \E answer \in ClientAnswers(WriteOutput) :
          /\ answers' = Append(answers, answer)
          /\ execResult' = AwaitSend(answer, Undefined)
    /\ history' = Append(history, [op |-> "exec", builder |-> "update"])
    /\ ncalls' = ncalls + 1
    /\ UNCHANGED <<templateVars, snakeVars, schema, nameVars, writeVars, registryVars, ormVars,
                   update, get, query, table>>

NextUpdate == UpdateSet \/ UpdateKeys \/ UpdateExec

SpecUpdate == InitUpdate /\ [][NextUpdate]_vars

(***************************************************************************)
(* Claims about the update builder (checked under SpecUpdate).             *)
(***************************************************************************)
\* The calls of one kind in the history.
CallsOf(op) == SelectSeq(history, LAMBDA c : c.op = op)

RECURSIVE FirstOccurrences(_, _)
\* The wire names of the calls, each once, in the order of first occurrence.
FirstOccurrences(calls, seen) ==
    IF calls = <<>> THEN <<>>
    ELSE IF Head(calls).attrName \in seen THEN FirstOccurrences(Tail(calls), seen)
    ELSE <<Head(calls).attrName>>
            \o FirstOccurrences(Tail(calls), seen \cup {Head(calls).attrName})

\* The value of the last of the calls that stored under the wire name.
LastStored(calls, attrName) ==
    LET last == CHOOSE i \in 1..Len(calls) :
                    /\ calls[i].attrName = attrName
                    /\ \A j \in (i + 1)..Len(calls) : calls[j].attrName # attrName
    IN  calls[last].value

\* The map a sequence of calls accumulates, as a set of <<key, value>> pairs.
Accumulated(calls) ==
    { <<calls[i].attrName, LastStored(calls, calls[i].attrName)>> :
        i \in 1..Len(calls) }

Pairs(o) == { o[i] : i \in 1..Len(o) }

\* C9: the Update request of the update builder has the UpdateExpression
\* "SET #f1 = :f1, #f2 = :f2, ..." over exactly the wire names of the fields
\* that were set, each once and in first-set order; its
\* ExpressionAttributeNames and ExpressionAttributeValues hold exactly one
\* #f and one :f entry per set field, the latter with the value the last set
\* stored; its Key is exactly the map accumulated by keys(...).
C9_UpdateRender ==
    LET cmd == UpdateCommand(update, schema)
        sets == CallsOf("set")
        fields == FirstOccurrences(sets, {})
    IN  /\ cmd.UpdateExpression =
              <<"SET ">> \o Join([i \in 1..Len(fields) |->
                                     <<"#">> \o fields[i] \o <<" = ", ":">> \o fields[i]],
                                 <<", ">>)
        /\ Len(cmd.ExpressionAttributeNames) = Len(fields)
        /\ Pairs(cmd.ExpressionAttributeNames) =
              { << <<"#">> \o fields[i], Str(fields[i]) >> : i \in 1..Len(fields) }
        /\ Len(cmd.ExpressionAttributeValues) = Len(fields)
        /\ Pairs(cmd.ExpressionAttributeValues) =
              { << <<":">> \o fields[i], LastStored(sets, fields[i]) >> :
                  i \in 1..Len(fields) }
        /\ Pairs(cmd.Key) = Accumulated(CallsOf("keys"))
        /\ Len(cmd.Key) = Cardinality(Accumulated(CallsOf("keys")))

\* C9 witness: two fields were set, the first of them twice with different
\* values, and keys were given.
C9_Witness ==
    /\ Len(update.item) = 2
    /\ Len(CallsOf("set")) = 3
    /\ CallsOf("set")[1].attrName = CallsOf("set")[3].attrName
    /\ CallsOf("set")[1].value # CallsOf("set")[3].value
    /\ Len(update.updateKeys) >= 1


(***************************************************************************)
(* The output of a served Get request: the item stored under the key of    *)
(* the request, if there is one.                                           *)
(***************************************************************************)
\* An object with ordered keys (an item, a names or values map), as a
\* JavaScript value.
Object(entries) == [type |-> "object", entries |-> entries]

\* The table of the model: one order of user 42, stored under its pk.
StoredTable ==
    ( { <<pk, Str(<<"USER#", "42">>)>> } :>
          << <<pk, Str(<<"USER#", "42">>)>>, <<status, Str(<<"stored">>)>> >> )

\* The output of client.send(request) for a Get request.
ClientGet(tbl, request) ==
    IF Pairs(request.Key) \in DOMAIN tbl
    THEN [Item |-> Object(tbl[Pairs(request.Key)])]
    ELSE [Item |-> Undefined]

(***************************************************************************)
(* GetBuilder                                                              *)
(***************************************************************************)
NewGetBuilder == [item |-> EmptyObject, getKeys |-> EmptyObject]

\* new GetCommand({ TableName, Key })
GetCommand(builder, sch) ==
    [command |-> "Get", TableName |-> sch.tableName, Key |-> builder.getKeys]

\* What GetBuilder.exec returns once send has answered.
GetExecResult(builder, answer) == Object(builder.item)

InitGet ==
    /\ schema \in BuilderSchemas
    /\ get = NewGetBuilder
    /\ table = StoredTable
    /\ sent = <<>>
    /\ history = <<>>
    /\ execResult = NotCalled
    /\ ncalls = 0
    /\ answers = <<>>
    /\ IdleTemplate /\ IdleSnake /\ IdleName /\ IdleUpdate /\ IdleQuery
    /\ IdlePut /\ IdleDelete /\ IdleTransaction /\ IdleRegistry /\ IdleOrm

\* get.keys(input)
GetKeys ==
    /\ ncalls < MaxCalls
    /\ \E input \in KeysInputs :
          LET r == KeysLoop(get.getKeys, schema, input, 1, <<>>)
          IN  /\ get' = [get EXCEPT !.getKeys = r.keys]
              /\ history' = history \o r.stored
    /\ ncalls' = ncalls + 1
    /\ UNCHANGED <<templateVars, snakeVars, schema, nameVars, writeVars, registryVars, ormVars,
                   update, query, table,
                   sent, answers, execResult>>

\* get.set(key, value), inherited from Command
GetSet ==
    /\ ncalls < MaxCalls
    /\ \E in \in SetInputs :
          LET r == CommandSet(get.item, schema, in[1], in[2])
          IN  /\ get' = [get EXCEPT !.item = r.item]
              /\ history' = history \o r.stored
    /\ ncalls' = ncalls + 1
    /\ UNCHANGED <<templateVars, snakeVars, schema, nameVars, writeVars, registryVars, ormVars,
                   update, query, table,
                   sent, answers, execResult>>

\* get.exec(): await client.send(new GetCommand(...)); return this.item
GetExec ==
    /\ ncalls < MaxCalls
    /\ sent' = Append(sent, GetCommand(get, schema))
    /\ \E answer \in ClientAnswers(ClientGet(table, GetCommand(get, schema))) :
          /\ answers' = Append(answers, answer)
          /\ execResult' = AwaitSend(answer, GetExecResult(get, answer))
    /\ history' = Append(history, [op |-> "exec", builder |-> "get"])
    /\ ncalls' = ncalls + 1
    /\ UNCHANGED <<templateVars, snakeVars, schema, nameVars, writeVars, registryVars, ormVars,
                   update, get, query, table>>

NextGet == GetKeys \/ GetSet \/ GetExec

SpecGet == InitGet /\ [][NextGet]_vars

(***************************************************************************)
(* Claims about the get builder (checked under SpecGet).                   *)
(***************************************************************************)
\* C10: exec of the get builder looks up the accumulated key map and returns
\* the item the client answered with (the item stored in the table under
\* that key), not the builder's own in-memory item.
C10_GetReturnsStoredItem ==
    (/\ execResult # NotCalled
     /\ Last(answers).tag = "return"
     /\ Pairs(Last(sent).Key) \in DOMAIN table) =>
        /\ Last(sent).command = "Get"
        /\ execResult = Returned(ClientGet(table, Last(sent)).Item)


(***************************************************************************)
(* QueryBuilder                                                            *)
(***************************************************************************)
NewQueryBuilder ==
    [keyConditions |-> <<>>, attributeNames |-> EmptyObject,
     attributeValues |-> EmptyObject, filterExpressions |-> <<>>,
     limit |-> 0, indexName |-> <<>>]

NamePlaceholder(attrName) == <<"#">> \o attrName
ValuePlaceholder(attrName, suffix) == <<":">> \o attrName \o suffix

RECURSIVE QueryKeysLoop(_, _, _, _)
\* The loop of QueryBuilder.keys over Object.entries(input) from entry i on:
\* the clause is pushed and the name registered before the value is
\* resolved, so they stay when generate throws.
QueryKeysLoop(builder, sch, input, i) ==
    IF i > Len(input) THEN [builder |-> builder, outcome |-> Returned(Undefined)]
    ELSE LET field == sch.schemaDefinition[input[i][1]]
             attrName == getAttributeName(sch, input[i][1])
             pushed == [builder EXCEPT
                 !.keyConditions = Append(@, NamePlaceholder(attrName) \o <<" = ">>
                                               \o ValuePlaceholder(attrName, <<>>)),
                 !.attributeNames = Put(@, NamePlaceholder(attrName), Str(attrName))]
             r == ResolveKey(field, input[i][2])
         IN  IF r.tag = "throw" THEN [builder |-> pushed, outcome |-> r]
             ELSE QueryKeysLoop(
                      [pushed EXCEPT !.attributeValues =
                          Put(@, ValuePlaceholder(attrName, <<>>), r.value)],
                      sch, input, i + 1)

\* QueryBuilder.keys(input)
QueryKeysCall(builder, sch, input) == QueryKeysLoop(builder, sch, input, 1)

\* attributeExists(key) and attributeNotExists(key): fn is the function name.
QueryUnary(builder, sch, fn, key) ==
    LET attrName == getAttributeName(sch, key)
    IN  [builder EXCEPT
            !.filterExpressions =
                Append(@, <<fn, "(">> \o NamePlaceholder(attrName) \o <<")">>),
            !.attributeNames = Put(@, NamePlaceholder(attrName), Str(attrName))]

\* attributeType(key, type)
QueryAttributeType(builder, sch, key, type) ==
    LET attrName == getAttributeName(sch, key)
    IN  [builder EXCEPT
            !.filterExpressions =
                Append(@, <<"attribute_type", "(">> \o NamePlaceholder(attrName)
                            \o <<", ">> \o ValuePlaceholder(attrName, <<"_type">>)
                            \o <<")">>),
            !.attributeNames = Put(@, NamePlaceholder(attrName), Str(attrName)),
            !.attributeValues =
                Put(@, ValuePlaceholder(attrName, <<"_type">>), Str(type))]

\* A faulty contains that does not push a clause the filter list has.
QueryContainsOnce(builder, sch, key, operand) ==
    LET attrName == getAttributeName(sch, key)
        clause == <<"contains", "(">> \o NamePlaceholder(attrName)
                    \o <<", ">> \o ValuePlaceholder(attrName, <<"_contains">>)
                    \o <<")">>
    IN  [builder EXCEPT
            !.filterExpressions =
                IF \E i \in 1..Len(@) : @[i] = clause THEN @ ELSE Append(@, clause),
            !.attributeNames = Put(@, NamePlaceholder(attrName), Str(attrName)),
            !.attributeValues =
                Put(@, ValuePlaceholder(attrName, <<"_contains">>), Str(operand))]

\* contains(key, operand)
QueryContains(builder, sch, key, operand) ==
    LET attrName == getAttributeName(sch, key)
    IN  [builder EXCEPT
            !.filterExpressions =
                Append(@, <<"contains", "(">> \o NamePlaceholder(attrName)
                            \o <<", ">> \o ValuePlaceholder(attrName, <<"_contains">>)
                            \o <<")">>),
            !.attributeNames = Put(@, NamePlaceholder(attrName), Str(attrName)),
            !.attributeValues =
                Put(@, ValuePlaceholder(attrName, <<"_contains">>), Str(operand))]

\* A faulty beginsWith that names its value placeholder as contains does.
QueryBeginsWithContainsSuffix(builder, sch, key, prefix) ==
    LET attrName == getAttributeName(sch, key)
    IN  [builder EXCEPT
            !.keyConditions =
                Append(@, <<"begins_with", "(">> \o NamePlaceholder(attrName)
                            \o <<", ">> \o ValuePlaceholder(attrName, <<"_contains">>)
                            \o <<")">>),
            !.attributeNames = Put(@, NamePlaceholder(attrName), Str(attrName)),
            !.attributeValues =
                Put(@, ValuePlaceholder(attrName, <<"_contains">>), Str(prefix))]

\* beginsWith(key, prefix)
QueryBeginsWith(builder, sch, key, prefix) ==
    LET attrName == getAttributeName(sch, key)
    IN  [builder EXCEPT
            !.keyConditions =
                Append(@, <<"begins_with", "(">> \o NamePlaceholder(attrName)
                            \o <<", ">> \o ValuePlaceholder(attrName, <<"_begins">>)
                            \o <<")">>),
            !.attributeNames = Put(@, NamePlaceholder(attrName), Str(attrName)),
            !.attributeValues =
                Put(@, ValuePlaceholder(attrName, <<"_begins">>), Str(prefix))]

\* Number.prototype.toString, for the numbers of the model.
NumberToString(n) ==
    CASE n = 0 -> <<"0">>
      [] n = 3 -> <<"3">>
      [] n = 5 -> <<"5">>
      [] OTHER -> <<"number">>

\* size(key, operator, value)
QuerySize(builder, sch, key, operator, value) ==
    LET attrName == getAttributeName(sch, key)
    IN  [builder EXCEPT
            !.keyConditions =
                Append(@, <<"size", "(">> \o NamePlaceholder(attrName)
                            \o <<")", " ", operator, " ">>
                            \o ValuePlaceholder(attrName, <<"_size">>)),
            !.attributeNames = Put(@, NamePlaceholder(attrName), Str(attrName)),
            !.attributeValues =
                Put(@, ValuePlaceholder(attrName, <<"_size">>),
                    Object(<< << <<"N">>, Str(NumberToString(value)) >> >>))]

\* A faulty render that always sets KeyConditionExpression, to the empty
\* string when there is no key-condition clause.
QueryCommandWithEmptyKeyCondition(builder, sch) ==
    LET i0 == << << <<"TableName">>, Str(sch.tableName) >> >>
        i1 == Put(i0, <<"KeyConditionExpression">>,
                  Str(Join(builder.keyConditions, <<" and ">>)))
        i2 == IF Len(ObjectKeys(builder.attributeNames)) > 0
              THEN Put(i1, <<"ExpressionAttributeNames">>, Object(builder.attributeNames))
              ELSE i1
        i3 == IF Len(ObjectKeys(builder.attributeValues)) > 0
              THEN Put(i2, <<"ExpressionAttributeValues">>, Object(builder.attributeValues))
              ELSE i2
        i4 == IF Len(builder.filterExpressions) > 0
              THEN Put(i3, <<"FilterExpression">>,
                       Str(Join(builder.filterExpressions, <<" and ">>)))
              ELSE i3
    IN  [command |-> "Query", input |-> i4]

\* The QueryCommand input that exec builds.
QueryCommand(builder, sch) ==
    LET i0 == << << <<"TableName">>, Str(sch.tableName) >> >>
        i1 == IF Len(builder.keyConditions) > 0
              THEN Put(i0, <<"KeyConditionExpression">>,
                       Str(Join(builder.keyConditions, <<" and ">>)))
              ELSE i0
        i2 == IF Len(ObjectKeys(builder.attributeNames)) > 0
              THEN Put(i1, <<"ExpressionAttributeNames">>, Object(builder.attributeNames))
              ELSE i1
        i3 == IF Len(ObjectKeys(builder.attributeValues)) > 0
              THEN Put(i2, <<"ExpressionAttributeValues">>, Object(builder.attributeValues))
              ELSE i2
        i4 == IF Len(builder.filterExpressions) > 0
              THEN Put(i3, <<"FilterExpression">>,
                       Str(Join(builder.filterExpressions, <<" and ">>)))
              ELSE i3
        i5 == IF builder.limit > 0 THEN Put(i4, <<"Limit">>, Num(builder.limit)) ELSE i4
        i6 == IF builder.indexName # <<>>
              THEN Put(i5, <<"IndexName">>, Str(builder.indexName))
              ELSE i5
    IN  [command |-> "Query", input |-> i6]

\* The output of client.send(request) for a Query request: the evaluation of
\* the expressions is the store's; the model answers with the stored items.
ClientQuery(tbl, request) ==
    [Items |-> [type |-> "array", elements |-> { Object(tbl[k]) : k \in DOMAIN tbl }]]

\* The fields the condition methods are called with in the model.
ConditionFields == {status, orderDate}

\* The operands contains is called with in the model.
ContainsOperands == {<<"foo">>, <<"bar">>}

InitQuery ==
    /\ schema \in BuilderSchemas
    /\ query = NewQueryBuilder
    /\ table = StoredTable
    /\ sent = <<>>
    /\ history = <<>>
    /\ execResult = NotCalled
    /\ ncalls = 0
    /\ answers = <<>>
    /\ IdleTemplate /\ IdleSnake /\ IdleName /\ IdleUpdate /\ IdleGet
    /\ IdlePut /\ IdleDelete /\ IdleTransaction /\ IdleRegistry /\ IdleOrm

\* What a call on the query builder leaves alone, but for the builder and
\* the call counter.
QueryFrame ==
    UNCHANGED <<templateVars, snakeVars, schema, nameVars, writeVars, registryVars, ormVars,
                   update, get, table,
                sent, answers, execResult>>

\* query.keys(input); the results of the calls before are no longer the last.
QueryKeys ==
    /\ ncalls < MaxQueryCalls
    /\ \E input \in KeysInputs :
          /\ query' = QueryKeysCall(query, schema, input).builder
          /\ history' = Append(history, [op |-> "keys", input |-> input,
                                         outcome |-> QueryKeysCall(query, schema, input).outcome])
    /\ ncalls' = ncalls + 1
    /\ QueryFrame

QueryAttributeExists ==
    /\ ncalls < MaxQueryCalls
    /\ \E key \in ConditionFields :
          /\ query' = QueryUnary(query, schema, "attribute_exists", key)
          /\ history' = Append(history, [op |-> "attributeExists", key |-> key])
    /\ ncalls' = ncalls + 1
    /\ QueryFrame

QueryAttributeNotExists ==
    /\ ncalls < MaxQueryCalls
    /\ \E key \in ConditionFields :
          /\ query' = QueryUnary(query, schema, "attribute_not_exists", key)
          /\ history' = Append(history, [op |-> "attributeNotExists", key |-> key])
    /\ ncalls' = ncalls + 1
    /\ QueryFrame

QueryAttributeTypeCall ==
    /\ ncalls < MaxQueryCalls
    /\ \E key \in ConditionFields :
          /\ query' = QueryAttributeType(query, schema, key, <<"S">>)
          /\ history' = Append(history, [op |-> "attributeType", key |-> key, operand |-> Str(<<"S">>)])
    /\ ncalls' = ncalls + 1
    /\ QueryFrame

QueryContainsCall ==
    /\ ncalls < MaxQueryCalls
    /\ \E key \in ConditionFields, operand \in ContainsOperands :
          /\ query' = QueryContains(query, schema, key, operand)
          /\ history' = Append(history, [op |-> "contains", key |-> key, operand |-> Str(operand)])
    /\ ncalls' = ncalls + 1
    /\ QueryFrame

QueryBeginsWithCall ==
    /\ ncalls < MaxQueryCalls
    /\ \E key \in ConditionFields :
          /\ query' = QueryBeginsWith(query, schema, key, <<"ORDER#">>)
          /\ history' = Append(history, [op |-> "beginsWith", key |-> key, operand |-> Str(<<"ORDER#">>)])
    /\ ncalls' = ncalls + 1
    /\ QueryFrame

QuerySizeCall ==
    /\ ncalls < MaxQueryCalls
    /\ \E key \in ConditionFields :
          /\ query' = QuerySize(query, schema, key, ">", 3)
          /\ history' = Append(history, [op |-> "size", key |-> key, operator |-> ">", operand |-> Num(3)])
    /\ ncalls' = ncalls + 1
    /\ QueryFrame

\* query.limit(limit)
QueryLimit ==
    /\ ncalls < MaxQueryCalls
    /\ \E limit \in {0, 5} :
          /\ query' = [query EXCEPT !.limit = limit]
          /\ history' = Append(history, [op |-> "limit", limit |-> limit])
    /\ ncalls' = ncalls + 1
    /\ QueryFrame

\* query.index(indexName)
QueryIndex ==
    /\ ncalls < MaxQueryCalls
    /\ query' = [query EXCEPT !.indexName = <<"gsi1">>]
    /\ history' = Append(history, [op |-> "index", indexName |-> <<"gsi1">>])
    /\ ncalls' = ncalls + 1
    /\ QueryFrame

\* A faulty exec that consumes the builder: the accumulated state is
\* discarded once the request is sent.
QueryExecConsuming ==
    /\ ncalls < MaxQueryCalls
    /\ sent' = Append(sent, QueryCommand(query, schema))
    /\ \E answer \in ClientAnswers(ClientQuery(table, QueryCommand(query, schema))) :
          /\ answers' = Append(answers, answer)
          /\ execResult' = AwaitSend(answer, IF answer.tag = "throw" THEN Undefined
                                             ELSE answer.value.Items)
    /\ query' = NewQueryBuilder
    /\ history' = Append(history, [op |-> "exec", builder |-> "query"])
    /\ ncalls' = ncalls + 1
    /\ UNCHANGED <<templateVars, snakeVars, schema, nameVars, writeVars, registryVars, ormVars,
                   update, get, table>>

\* query.exec(): returns result.Items
QueryExec ==
    /\ ncalls < MaxQueryCalls
    /\ sent' = Append(sent, QueryCommand(query, schema))
    /\ \E answer \in ClientAnswers(ClientQuery(table, QueryCommand(query, schema))) :
          /\ answers' = Append(answers, answer)
          /\ execResult' = AwaitSend(answer, IF answer.tag = "throw" THEN Undefined
                                             ELSE answer.value.Items)
    /\ history' = Append(history, [op |-> "exec", builder |-> "query"])
    /\ ncalls' = ncalls + 1
    /\ UNCHANGED <<templateVars, snakeVars, schema, nameVars, writeVars, registryVars, ormVars,
                   update, get, query, table>>

NextQuery ==
    \/ QueryKeys \/ QueryAttributeExists \/ QueryAttributeNotExists
    \/ QueryAttributeTypeCall \/ QueryContainsCall \/ QueryBeginsWithCall
    \/ QuerySizeCall \/ QueryLimit \/ QueryIndex \/ QueryExec

SpecQuery == InitQuery /\ [][NextQuery]_vars

(***************************************************************************)
(* Claims about the query builder (checked under SpecQuery).               *)
(***************************************************************************)
\* The characters a placeholder name is made of.
PlaceholderChars ==
    LowerChars \cup UpperChars \cup DigitChars
        \cup {"_", "_type", "_contains", "_begins", "_size"}

\* The placeholders of a clause that start with the sigil ("#" or ":").
PlaceholdersOf(clause, sigil) ==
    { SubSeq(clause, i, RunEnd(clause, i + 1, PlaceholderChars)) :
        i \in { j \in 1..Len(clause) : clause[j] = sigil } }

Clauses(builder) ==
    { builder.keyConditions[i] : i \in 1..Len(builder.keyConditions) }
        \cup { builder.filterExpressions[i] : i \in 1..Len(builder.filterExpressions) }

\* C5: in every reachable state of a query builder, also after a keys call
\* that aborted, every #-placeholder of a clause is a key of the names map
\* and every :-placeholder of a clause is a key of the values map.
C5_PlaceholdersRegistered ==
    \A clause \in Clauses(query) :
        /\ \A p \in PlaceholdersOf(clause, "#") : Has(query.attributeNames, p)
        /\ \A p \in PlaceholdersOf(clause, ":") : Has(query.attributeValues, p)


(***************************************************************************)
(* PutBuilder                                                              *)
(***************************************************************************)
NewPutBuilder == [item |-> EmptyObject]

\* PutBuilder.command
PutCommand(builder, sch) ==
    [command |-> "Put", TableName |-> sch.tableName, Item |-> builder.item]

\* The arguments of set on the put builder: those of SetInputs, and a
\* template field declared on a date given its variables or a plain string.
PutSetInputs ==
    SetInputs \cup {<<dayKey, Day2>>, <<dayKey, Str(<<"2024-01-02">>)>>}

InitPut ==
    /\ schema \in BuilderSchemas
    /\ put = NewPutBuilder
    /\ sent = <<>>
    /\ answers = <<>>
    /\ history = <<>>
    /\ execResult = NotCalled
    /\ ncalls = 0
    /\ table = NotCalled
    /\ IdleTemplate /\ IdleSnake /\ IdleName /\ IdleUpdate /\ IdleGet /\ IdleQuery
    /\ IdleDelete /\ IdleTransaction /\ IdleRegistry /\ IdleOrm

\* put.set(key, value); the history keeps the arguments, the outcome and
\* the assignment made.
PutSet ==
    /\ ncalls < MaxCalls
    /\ \E in \in PutSetInputs :
          LET r == CommandSet(put.item, schema, in[1], in[2])
          IN  /\ put' = [put EXCEPT !.item = r.item]
              /\ history' = Append(history, [op |-> "set", key |-> in[1],
                                             raw |-> in[2], outcome |-> r.outcome,
                                             stored |-> r.stored])
    /\ ncalls' = ncalls + 1
    /\ UNCHANGED <<templateVars, snakeVars, schema, nameVars, registryVars, ormVars,
                   update, get, query, delete, transaction, table, sent, answers,
                   execResult>>

\* put.exec(): await client.send(this.command); return this.item
PutExec ==
    /\ ncalls < MaxCalls
    /\ sent' = Append(sent, PutCommand(put, schema))
    /\ \E answer \in ClientAnswers(WriteOutput) :
          /\ answers' = Append(answers, answer)
          /\ execResult' = AwaitSend(answer, Object(put.item))
    /\ history' = Append(history, [op |-> "exec", builder |-> "put"])
    /\ ncalls' = ncalls + 1
    /\ UNCHANGED <<templateVars, snakeVars, schema, nameVars, registryVars, ormVars,
                   update, get, query, writeVars, table>>

NextPut == PutSet \/ PutExec

SpecPut == InitPut /\ [][NextPut]_vars

(***************************************************************************)
(* Claims about the put builder and Command.set (checked under SpecPut).   *)
(***************************************************************************)
RECURSIVE StoredBy(_)
\* The assignments the calls made, oldest first.
StoredBy(calls) ==
    IF calls = <<>> THEN <<>> ELSE Head(calls).stored \o StoredBy(Tail(calls))

ResolvedByKind(field, raw) ==
    IF field.kind = "TemplateKey" /\ raw.type = "object"
    THEN Str(generate(field, raw.props).value)
    ELSE IF field.transform # Undefined THEN ApplyTransform(field.transform, raw)
    ELSE raw

\* C18: Command.set stores, under the wire name of the field, the generated
\* string for a template field given a mapping (and nothing when generate
\* throws), else transform(value) when the descriptor has a transform, else
\* the raw value; and no template descriptor has a transform.
C18_SetResolvesByKind ==
    /\ \A i \in 1..Len(history) :
          history[i].op = "set" =>
              LET c == history[i]
                  field == schema.schemaDefinition[c.key]
                  throws == /\ field.kind = "TemplateKey"
                            /\ c.raw.type = "object"
                            /\ generate(field, c.raw.props).tag = "throw"
              IN  IF throws
                  THEN c.stored = <<>> /\ c.outcome = generate(field, c.raw.props)
                  ELSE /\ Len(c.stored) = 1
                       /\ c.stored[1].attrName = getAttributeName(schema, c.key)
                       /\ c.stored[1].value = ResolvedByKind(field, c.raw)
    /\ (history # <<>> /\ Last(history).op = "set" /\ Last(history).stored # <<>>) =>
          Get(put.item, Last(history).stored[1].attrName) = Last(history).stored[1].value
    /\ \A key \in DOMAIN schema.schemaDefinition :
          schema.schemaDefinition[key].kind = "TemplateKey" =>
              schema.schemaDefinition[key].transform = Undefined

\* C18 witness: the four cases happened: a template field given a mapping, a
\* template field declared on a date given a string, a field with a
\* transform, and a plain field.
C18_Witness ==
    /\ Len(history) = 4
    /\ history[1].op = "set" /\ history[1].key = dayKey /\ history[1].raw = Day2
    /\ history[2].op = "set" /\ history[2].key = dayKey /\ history[2].raw.type = "string"
    /\ history[3].op = "set" /\ history[3].key = orderDate
    /\ history[4].op = "set" /\ history[4].key = status
    /\ Len(put.item) = 3


(***************************************************************************)
(* DeleteBuilder                                                           *)
(***************************************************************************)
NewDeleteBuilder == [item |-> EmptyObject, deleteKeys |-> EmptyObject]

\* A faulty command whose Key is the in-memory item.
DeleteCommandKeyedByItem(builder, sch) ==
    [command |-> "Delete", TableName |-> sch.tableName, Key |-> builder.item]

\* DeleteBuilder.command
DeleteCommand(builder, sch) ==
    [command |-> "Delete", TableName |-> sch.tableName, Key |-> builder.deleteKeys]

\* The arguments of set on the delete and the transaction builder.
FewSetInputs == {<<status, Str(<<"done">>)>>, <<pk, NoVariables>>}

\* delete.keys(input)
DeleteKeys ==
    /\ ncalls < MaxTransactionCalls
    /\ \E input \in KeysInputs :
          LET r == KeysLoop(delete.deleteKeys, schema, input, 1, <<>>)
          IN  /\ delete' = [delete EXCEPT !.deleteKeys = r.keys]
              /\ history' = history \o r.stored
    /\ ncalls' = ncalls + 1
    /\ UNCHANGED <<templateVars, snakeVars, schema, nameVars, registryVars, ormVars,
                   update, get, query, put, transaction, table, sent, answers,
                   execResult>>

\* delete.set(key, value)
DeleteSet ==
    /\ ncalls < MaxTransactionCalls
    /\ \E in \in FewSetInputs :
          LET r == CommandSet(delete.item, schema, in[1], in[2])
          IN  /\ delete' = [delete EXCEPT !.item = r.item]
              /\ history' = Append(history, [op |-> "set", builder |-> "delete",
                                             stored |-> r.stored])
    /\ ncalls' = ncalls + 1
    /\ UNCHANGED <<templateVars, snakeVars, schema, nameVars, registryVars, ormVars,
                   update, get, query, put, transaction, table, sent, answers,
                   execResult>>

\* delete.exec(): await client.send(this.command); return this.item
DeleteExec ==
    /\ ncalls < MaxTransactionCalls
    /\ sent' = Append(sent, DeleteCommand(delete, schema))
    /\ \E answer \in ClientAnswers(WriteOutput) :
          /\ answers' = Append(answers, answer)
          /\ execResult' = AwaitSend(answer, Object(delete.item))
    /\ history' = Append(history, [op |-> "exec", builder |-> "delete"])
    /\ ncalls' = ncalls + 1
    /\ UNCHANGED <<templateVars, snakeVars, schema, nameVars, registryVars, ormVars,
                   update, get, query, writeVars, table>>

(***************************************************************************)
(* TransactionBuilder.  Its writeTransaction holds the builders themselves *)
(* (by reference): a member is named by the variable that holds it.        *)
(***************************************************************************)
NewTransactionBuilder == [item |-> EmptyObject, writeTransaction |-> <<>>]

\* TransactionTypes
Members == {"put", "delete", "update"}

\* A put builder after set("status", "done"), and an update builder after
\* keys({ pk: { userId: "42" } }) and set("status", "open").
PutOfStatus(sch) ==
    [item |-> CommandSet(EmptyObject, sch, status, Str(<<"done">>)).item]
UpdateOfStatus(sch) ==
    [item |-> CommandSet(EmptyObject, sch, status, Str(<<"open">>)).item,
     updateKeys |-> KeysLoop(EmptyObject, sch, << <<pk, UserId42>> >>, 1, <<>>).keys]

\* A faulty command that is the one the member had when it was configured,
\* whatever was called on it since.
MemberCommandAsConfigured(member) ==
    CASE member = "put" -> PutCommand(PutOfStatus(schema), schema)
      [] member = "delete" -> DeleteCommand(NewDeleteBuilder, schema)
      [] member = "update" -> UpdateCommand(UpdateOfStatus(schema), schema)

\* transaction.command of a member, read when exec runs.
MemberCommand(member) ==
    CASE member = "put" -> PutCommand(put, schema)
      [] member = "delete" -> DeleteCommand(delete, schema)
      [] member = "update" -> UpdateCommand(update, schema)

\* A faulty command that lists the members last added first.
TransactionCommandReversed(builder) ==
    [command |-> "TransactWrite",
     TransactItems |->
         [i \in 1..Len(builder.writeTransaction) |->
             MemberCommand(builder.writeTransaction[
                 Len(builder.writeTransaction) + 1 - i])]]

\* new TransactWriteCommand({ TransactItems: transactionCommands })
TransactionCommand(builder) ==
    [command |-> "TransactWrite",
     TransactItems |->
         [i \in 1..Len(builder.writeTransaction) |->
             MemberCommand(builder.writeTransaction[i])]]

InitTransaction ==
    /\ schema \in BuilderSchemas
    /\ put = PutOfStatus(schema)
    /\ update = UpdateOfStatus(schema)
    /\ delete = NewDeleteBuilder
    /\ transaction = NewTransactionBuilder
    /\ sent = <<>>
    /\ answers = <<>>
    /\ history = <<>>
    /\ execResult = NotCalled
    /\ ncalls = 0
    /\ table = NotCalled
    /\ IdleTemplate /\ IdleSnake /\ IdleName /\ IdleGet /\ IdleQuery /\ IdleRegistry
    /\ IdleOrm

\* transaction.with(member)
TransactionWith ==
    /\ ncalls < MaxTransactionCalls
    /\ \E member \in Members :
          /\ transaction' = [transaction EXCEPT
                                !.writeTransaction = Append(@, member)]
          /\ history' = Append(history, [op |-> "with", member |-> member])
    /\ ncalls' = ncalls + 1
    /\ UNCHANGED <<templateVars, snakeVars, schema, nameVars, registryVars, ormVars,
                   update, get, query, put, delete, table, sent, answers,
                   execResult>>

\* transaction.set(key, value)
TransactionSet ==
    /\ ncalls < MaxTransactionCalls
    /\ \E in \in FewSetInputs :
          LET r == CommandSet(transaction.item, schema, in[1], in[2])
          IN  /\ transaction' = [transaction EXCEPT !.item = r.item]
              /\ history' = Append(history, [op |-> "set", builder |-> "transaction",
                                             stored |-> r.stored])
    /\ ncalls' = ncalls + 1
    /\ UNCHANGED <<templateVars, snakeVars, schema, nameVars, registryVars, ormVars,
                   update, get, query, put, delete, table, sent, answers,
                   execResult>>

\* transaction.exec(): await client.send(command); return this.item
TransactionExec ==
    /\ ncalls < MaxTransactionCalls
    /\ sent' = Append(sent, TransactionCommand(transaction))
    /\ \E answer \in ClientAnswers(WriteOutput) :
          /\ answers' = Append(answers, answer)
          /\ execResult' = AwaitSend(answer, Object(transaction.item))
    /\ history' = Append(history, [op |-> "exec", builder |-> "transaction"])
    /\ ncalls' = ncalls + 1
    /\ UNCHANGED <<templateVars, snakeVars, schema, nameVars, registryVars, ormVars,
                   update, get, query, writeVars, table>>

NextTransaction ==
    \/ DeleteKeys \/ DeleteSet \/ DeleteExec
    \/ TransactionWith \/ TransactionSet \/ TransactionExec

SpecTransaction == InitTransaction /\ [][NextTransaction]_vars

(***************************************************************************)
(* Claims about the delete and the transaction builder (checked under      *)
(* SpecTransaction).                                                       *)
(***************************************************************************)
\* The builders whose exec calls the history holds, oldest first.
Execs == CallsOf("exec")

\* C12: every exec of the transaction builder hands the client one
\* TransactWrite request, and no exec hands it more than one request; the
\* TransactItems of that request are the requests of the builders added by
\* with(...), one per with call, in the order of the with calls.
C12_TransactItemsInOrder ==
    /\ Len(sent) = Len(Execs)
    /\ \A i \in 1..Len(sent) :
          (sent[i].command = "TransactWrite") <=> (Execs[i].builder = "transaction")
    /\ (history # <<>> /\ Last(history) = [op |-> "exec", builder |-> "transaction"]) =>
          LET withs == CallsOf("with")
              items == Last(sent).TransactItems
          IN  /\ Len(items) = Len(withs)
              /\ \A i \in 1..Len(withs) : items[i] = MemberCommand(withs[i].member)

\* C12 witness: two different builders were added and exec sent their two
\* different requests.
C12_Witness ==
    /\ Len(history) = 3
    /\ history[1].op = "with" /\ history[2].op = "with"
    /\ history[1].member # history[2].member
    /\ Last(history) = [op |-> "exec", builder |-> "transaction"]
    /\ Len(Last(sent).TransactItems) = 2
    /\ Last(sent).TransactItems[1] # Last(sent).TransactItems[2]

\* The set calls on the builder that stored something.
SetsOn(builder) ==
    SelectSeq(history, LAMBDA c : c.op = "set" /\ c.builder = builder /\ c.stored # <<>>)

\* C19: exec of the delete builder sends a Delete request whose Key is
\* exactly the map accumulated by keys(...); a served exec of the delete
\* builder and of the transaction builder returns the in-memory item of that
\* builder, which is empty when set was never called on it, whatever the
\* members of the transaction hold.
C19_DeleteAndTransactionReturnOwnItem ==
    (history # <<>> /\ Last(history).op = "exec") =>
        /\ Last(history).builder = "delete" =>
              /\ Last(sent).command = "Delete"
              /\ Last(sent).TableName = schema.tableName
              /\ Pairs(Last(sent).Key) = Accumulated(CallsOf("keys"))
              /\ Len(Last(sent).Key) = Cardinality(Accumulated(CallsOf("keys")))
              /\ Last(answers).tag = "return" =>
                    /\ execResult = Returned(Object(delete.item))
                    /\ Pairs(delete.item) = Accumulated(StoredBy(SetsOn("delete")))
        /\ (Last(history).builder = "transaction" /\ Last(answers).tag = "return") =>
                  /\ execResult = Returned(Object(transaction.item))
                  /\ Pairs(transaction.item) = Accumulated(StoredBy(SetsOn("transaction")))

\* C19 witness: the delete builder was given two keys and no set, its exec
\* sent them and was served; then the exec of the transaction builder, on
\* which set was never called either, returned the empty item while the put
\* builder holds one.
C19_Witness ==
    /\ Len(sent) = 2
    /\ sent[1].command = "Delete" /\ Len(sent[1].Key) = 2
    /\ answers[1].tag = "return"
    /\ Last(history) = [op |-> "exec", builder |-> "transaction"]
    /\ SetsOn("delete") = <<>> /\ SetsOn("transaction") = <<>>
    /\ put.item # EmptyObject
    /\ execResult = Returned(Object(EmptyObject))


(***************************************************************************)
(* Claims about the render of the query builder (checked under SpecQuery). *)
(***************************************************************************)
KeyConditionExpression == <<"KeyConditionExpression">>
FilterExpression == <<"FilterExpression">>
ExpressionAttributeNames == <<"ExpressionAttributeNames">>
ExpressionAttributeValues == <<"ExpressionAttributeValues">>

\* The field of the request is present exactly when `present`, and then
\* holds the value.
FieldIs(input, field, present, value) ==
    /\ Has(input, field) <=> present
    /\ Has(input, field) => Get(input, field) = value

\* C13: the request the query builder renders has KeyConditionExpression =
\* the key-condition clauses joined by " and " in insertion order, and none
\* when there is no such clause; FilterExpression likewise for the filter
\* clauses; ExpressionAttributeNames and ExpressionAttributeValues exactly
\* when the respective map is not empty; and that request is what exec sends.
C13_QueryRender ==
    LET input == QueryCommand(query, schema).input
    IN  /\ FieldIs(input, KeyConditionExpression, query.keyConditions # <<>>,
                   Str(Join(query.keyConditions, <<" and ">>)))
        /\ FieldIs(input, FilterExpression, query.filterExpressions # <<>>,
                   Str(Join(query.filterExpressions, <<" and ">>)))
        /\ FieldIs(input, ExpressionAttributeNames, query.attributeNames # <<>>,
                   Object(query.attributeNames))
        /\ FieldIs(input, ExpressionAttributeValues, query.attributeValues # <<>>,
                   Object(query.attributeValues))
        /\ (history # <<>> /\ Last(history).op = "exec") =>
              Last(sent) = [command |-> "Query", input |-> input]

\* C13 witness: exec sent a request with two filter clauses joined by
\* " and ", a names map, and neither a key condition nor a values map.
C13_Witness ==
    /\ Len(history) = 3
    /\ Last(history).op = "exec"
    /\ Len(query.filterExpressions) = 2
    /\ query.filterExpressions[1] # query.filterExpressions[2]
    /\ query.keyConditions = <<>>
    /\ query.attributeValues = <<>>
    /\ Get(Last(sent).input, FilterExpression) =
          Str(query.filterExpressions[1] \o <<" and ">> \o query.filterExpressions[2])
    /\ ~Has(Last(sent).input, KeyConditionExpression)
    /\ ~Has(Last(sent).input, ExpressionAttributeValues)
    /\ Has(Last(sent).input, ExpressionAttributeNames)

\* C14: the rendered request carries Limit exactly when limit(n) was called,
\* with the n of the last call, whatever integer n is; and IndexName exactly
\* when index(name) was called, with the name of the last call.
C14_LimitAndIndexIffCalled ==
    LET input == QueryCommand(query, schema).input
        limits == CallsOf("limit")
        indexes == CallsOf("index")
    IN  /\ Has(input, <<"Limit">>) <=> limits # <<>>
        /\ Has(input, <<"Limit">>) =>
              Get(input, <<"Limit">>) = Num(Last(limits).limit)
        /\ Has(input, <<"IndexName">>) <=> indexes # <<>>
        /\ Has(input, <<"IndexName">>) =>
              Get(input, <<"IndexName">>) = Str(Last(indexes).indexName)

\* The value placeholders of the clauses that the condition function fn put
\* on the wire name.
ValuePlaceholdersOf(fn, attrName) ==
    UNION { PlaceholdersOf(clause, ":") :
              clause \in { c \in Clauses(query) :
                             /\ c[1] = fn
                             /\ NamePlaceholder(attrName) \in PlaceholdersOf(c, "#") } }

\* The operand of the last call of the condition method on the field.
LastOperand(op, key) ==
    Last(SelectSeq(history, LAMBDA c : c.op = op /\ c.key = key)).operand

Called(op, key) == \E i \in 1..Len(history) : history[i].op = op /\ history[i].key = key

\* C15: when contains, beginsWith and size were all called on one field, in
\* any order, their three value placeholders are pairwise distinct, and each
\* is a key of the rendered ExpressionAttributeValues holding the operand of
\* its own call (for size the number n as { N: n.toString() }).
C15_PlaceholdersDoNotCollide ==
    \A key \in ConditionFields :
        (Called("contains", key) /\ Called("beginsWith", key) /\ Called("size", key)) =>
            LET attrName == getAttributeName(schema, key)
                input == QueryCommand(query, schema).input
                values == Get(input, ExpressionAttributeValues).entries
            IN  \E c \in ValuePlaceholdersOf("contains", attrName),
                   b \in ValuePlaceholdersOf("begins_with", attrName),
                   z \in ValuePlaceholdersOf("size", attrName) :
                    /\ ValuePlaceholdersOf("contains", attrName) = {c}
                    /\ ValuePlaceholdersOf("begins_with", attrName) = {b}
                    /\ ValuePlaceholdersOf("size", attrName) = {z}
                    /\ c # b /\ c # z /\ b # z
                    /\ Has(values, c) /\ Has(values, b) /\ Has(values, z)
                    /\ Get(values, c) = LastOperand("contains", key)
                    /\ Get(values, b) = LastOperand("beginsWith", key)
                    /\ Get(values, z) =
                          Object(<< << <<"N">>,
                                       Str(NumberToString(LastOperand("size", key).num)) >> >>)

\* C15 witness: size, contains and beginsWith were called on one field.
C15_Witness ==
    /\ Len(history) = 3
    /\ history[1].op = "size" /\ history[2].op = "contains"
    /\ history[3].op = "beginsWith"
    /\ history[1].key = history[2].key /\ history[2].key = history[3].key
    /\ Len(query.attributeValues) = 3


(***************************************************************************)
(* Configuring the registry: DynamoSchema.table, region and schema.  The   *)
(* variable schema holds the registry that the last table call created.    *)
(***************************************************************************)
\* DynamoSchema.table(name): the registry created, or the error.
DynamoSchemaTable(name) ==
    IF name = <<>> THEN Thrown(<<"Table name is required">>)
    ELSE Returned(NewSchema(name, <<>>, Undefined, Undefined))

\* A faulty region that requires a name whatever the environment holds.
DynamoSchemaRegionAlwaysRequired(sch, name, awsRegion) ==
    IF name = <<>>
    THEN [schema |-> sch, outcome |-> Thrown(<<"Region name is required">>)]
    ELSE [schema |-> [sch EXCEPT !.regionName = name], outcome |-> Returned(Undefined)]

\* registry.region(name): the registry afterwards, and the error if any.
DynamoSchemaRegion(sch, name, awsRegion) ==
    IF name = <<>> /\ awsRegion = Undefined
    THEN [schema |-> sch, outcome |-> Thrown(<<"Region name is required">>)]
    ELSE [schema |-> [sch EXCEPT !.regionName = name], outcome |-> Returned(Undefined)]

\* registry.schema(definition, options)
DynamoSchemaSchema(sch, definition, options) ==
    [sch EXCEPT !.schemaDefinition = definition, !.schemaOptions = options]

TableNames == {<<>>, <<"orders">>, <<"users">>}
RegionNames == {<<>>, <<"us-east-1">>, <<"eu-west-1">>}
AmbientRegions == {Undefined, Str(<<"us-west-2">>)}

InitRegistry ==
    /\ schema = NotCalled
    /\ env \in { [AWS_REGION |-> r] : r \in AmbientRegions }
    /\ configResult = NotCalled
    /\ IdleTemplate /\ IdleSnake /\ IdleName
    /\ IdleUpdate /\ IdleGet /\ IdleQuery /\ IdlePut /\ IdleDelete
    /\ IdleTransaction /\ IdleOrm /\ IdleClient

RegistryFrame ==
    UNCHANGED <<templateVars, snakeVars, nameVars, update, get, query, writeVars,
                ormVars, env, table, sent, answers, execResult, history>>

\* DynamoSchema.table(name)
Table ==
    /\ ncalls < MaxConfigCalls
    /\ \E name \in TableNames :
          LET r == DynamoSchemaTable(name)
          IN  /\ schema' = IF r.tag = "throw" THEN schema ELSE r.value
              /\ configResult' = [op |-> "table", name |-> name, outcome |-> r.tag,
                                  before |-> schema]
    /\ ncalls' = ncalls + 1
    /\ RegistryFrame

\* registry.region(name)
Region ==
    /\ ncalls < MaxConfigCalls
    /\ schema # NotCalled
    /\ \E name \in RegionNames :
          LET r == DynamoSchemaRegion(schema, name, env.AWS_REGION)
          IN  /\ schema' = r.schema
              /\ configResult' = [op |-> "region", name |-> name,
                                  outcome |-> r.outcome.tag, before |-> schema]
    /\ ncalls' = ncalls + 1
    /\ RegistryFrame

\* registry.schema(definition, options)
Schema ==
    /\ ncalls < MaxConfigCalls
    /\ schema # NotCalled
    /\ \E options \in {Undefined, [transform |-> [toSnakeCase |-> TRUE]]} :
          /\ schema' = DynamoSchemaSchema(schema, BuilderDefinition, options)
          /\ configResult' = [op |-> "schema", name |-> <<>>, outcome |-> "return",
                              before |-> schema]
    /\ ncalls' = ncalls + 1
    /\ RegistryFrame

NextRegistry == Table \/ Region \/ Schema

SpecRegistry == InitRegistry /\ [][NextRegistry]_vars

(***************************************************************************)
(* Claims about configuring the registry (checked under SpecRegistry).     *)
(***************************************************************************)
\* C17: table(name) fails when name is empty and then creates no registry;
\* region(name) fails exactly when name is empty and the environment has no
\* AWS_REGION, and then leaves the registry as it was, its region included;
\* a registry that exists has a table name that is not empty.
C17_ConfigurationFailures ==
    /\ schema # NotCalled => schema.tableName # <<>>
    /\ (configResult # NotCalled /\ configResult.op = "table") =>
          /\ configResult.outcome = "throw" <=> configResult.name = <<>>
          /\ configResult.outcome = "throw" => schema = configResult.before
          /\ configResult.outcome = "return" =>
                /\ schema.tableName = configResult.name
                /\ schema.regionName = <<>>
    /\ (configResult # NotCalled /\ configResult.op = "region") =>
          /\ configResult.outcome = "throw" <=>
                (configResult.name = <<>> /\ env.AWS_REGION = Undefined)
          /\ configResult.outcome = "throw" => schema = configResult.before
          /\ configResult.outcome = "return" => schema.regionName = configResult.name

\* C17 witness: region failed on a registry whose region was set before, and
\* the region is still the one set before.
C17_Witness ==
    /\ configResult # NotCalled
    /\ configResult.op = "region"
    /\ configResult.outcome = "throw"
    /\ schema.regionName = <<"eu-west-1">>


(***************************************************************************)
(* The exec of the six builders of one registry, against a client that may *)
(* fail.                                                                   *)
(***************************************************************************)
\* A get builder after keys({ pk: { userId: "42" } }), and a transaction
\* builder after with(put).with(update).
GetOfUser(sch) ==
    [item |-> EmptyObject,
     getKeys |-> KeysLoop(EmptyObject, sch, << <<pk, UserId42>> >>, 1, <<>>).keys]
TransactionOfTwo == [item |-> EmptyObject, writeTransaction |-> <<"put", "update">>]

InitExec ==
    /\ schema \in BuilderSchemas
    /\ put = PutOfStatus(schema)
    /\ update = UpdateOfStatus(schema)
    /\ delete = NewDeleteBuilder
    /\ get = GetOfUser(schema)
    /\ query = NewQueryBuilder
    /\ transaction = TransactionOfTwo
    /\ table = StoredTable
    /\ sent = <<>>
    /\ answers = <<>>
    /\ history = <<>>
    /\ execResult = NotCalled
    /\ ncalls = 0
    /\ IdleTemplate /\ IdleSnake /\ IdleName /\ IdleRegistry /\ IdleOrm

NextExec ==
    \/ GetExec \/ PutExec \/ UpdateExec \/ DeleteExec \/ QueryExec
    \/ TransactionExec

SpecExec == InitExec /\ [][NextExec]_vars

\* The request each builder sends.
CommandOf(builder) ==
    CASE builder = "get" -> "Get"
      [] builder = "put" -> "Put"
      [] builder = "update" -> "Update"
      [] builder = "delete" -> "Delete"
      [] builder = "query" -> "Query"
      [] builder = "transaction" -> "TransactWrite"

\* C16: every exec of a get, put, update, delete, query or transaction
\* builder hands the client exactly one request (no retry), and when send
\* fails the exec fails with that same error.
C16_SendFailurePropagates ==
    /\ Len(sent) = Len(Execs)
    /\ Len(answers) = Len(sent)
    /\ \A i \in 1..Len(sent) : sent[i].command = CommandOf(Execs[i].builder)
    /\ (answers # <<>> /\ Last(answers).tag = "throw") => execResult = Last(answers)
    /\ (answers # <<>> /\ Last(answers).tag = "return") => execResult.tag = "return"

\* C16 witness: a send failed, the next was served, and the third failed with
\* another error, which the exec of the query builder rejected with.
C16_Witness ==
    /\ Len(sent) = 3
    /\ answers[1].tag = "throw" /\ answers[2].tag = "return"
    /\ answers[3].tag = "throw" /\ answers[3] # answers[1]
    /\ Last(history).builder = "query"
    /\ execResult = answers[3]


(***************************************************************************)
(* DynamoORM: every call of query(), put() or update() creates a builder   *)
(* of its own on the one registry.  The builders live at addresses; a      *)
(* caller holds the address it was handed.                                 *)
(***************************************************************************)
\* The builder a factory method of DynamoORM creates.
NewBuilder(class) ==
    CASE class = "query" -> [class |-> class, state |-> NewQueryBuilder]
      [] class = "put" -> [class |-> class, state |-> NewPutBuilder]
      [] class = "update" -> [class |-> class, state |-> NewUpdateBuilder]

\* new XBuilder(...): the address of the new object.
NewAddress(heap) == Cardinality(DOMAIN heap) + 1

\* A faulty write that reaches every builder of the class, as a field that
\* the instances of a class share would.
StoreShared(heap, address, fields) ==
    [a \in DOMAIN heap |->
        IF heap[a].class = heap[address].class
        THEN [heap[a] EXCEPT !.state = fields] ELSE heap[a]]

\* A write to the fields of the builder at the address.
Store(heap, address, fields) == [heap EXCEPT ![address].state = fields]

\* The state of a builder after the call.
ApplyCall(builder, sch, call) ==
    CASE call.op = "set" ->
            [builder EXCEPT !.item = CommandSet(@, sch, call.key, call.value).item]
      [] call.op = "keys" /\ call.class = "update" ->
            [builder EXCEPT
                !.updateKeys = KeysLoop(@, sch, call.input, 1, <<>>).keys]
      [] call.op = "keys" /\ call.class = "query" ->
            QueryKeysCall(builder, sch, call.input).builder
      [] call.op = "contains" -> QueryContains(builder, sch, call.key, call.operand)
      [] call.op = "exec" -> builder

\* The request the builder sends.
CommandFor(class, builder, sch) ==
    CASE class = "query" -> QueryCommand(builder, sch)
      [] class = "put" -> PutCommand(builder, sch)
      [] class = "update" -> UpdateCommand(builder, sch)

\* The fluent calls of the model on a builder of the class.
FluentCalls(class) ==
    (IF class \in {"put", "update"}
     THEN { [op |-> "set", class |-> class, key |-> in[1], value |-> in[2]] :
              in \in FewSetInputs }
     ELSE {})
    \cup (IF class \in {"update", "query"}
          THEN { [op |-> "keys", class |-> class, input |-> input] :
                   input \in { << <<pk, UserId42>> >>,
                               << <<sk, NoVariables>>, <<pk, NoVariables>> >> } }
          ELSE {})
    \cup (IF class = "query"
          THEN {[op |-> "contains", class |-> class, key |-> status,
                 operand |-> <<"foo">>]}
          ELSE {})

InitOrm ==
    /\ schema \in BuilderSchemas
    /\ builders = <<>>
    /\ handles = <<>>
    /\ table = StoredTable
    /\ sent = <<>>
    /\ answers = <<>>
    /\ history = <<>>
    /\ execResult = NotCalled
    /\ ncalls = 0
    /\ IdleTemplate /\ IdleSnake /\ IdleName /\ IdleRegistry
    /\ IdleUpdate /\ IdleGet /\ IdleQuery /\ IdlePut /\ IdleDelete /\ IdleTransaction

OrmFrame ==
    UNCHANGED <<templateVars, snakeVars, schema, nameVars, registryVars,
                update, get, query, writeVars, table>>

\* orm.query(), orm.put(), orm.update()
OrmCreate ==
    /\ ncalls < MaxOrmCalls
    /\ Len(handles) < MaxBuilders
    /\ \E class \in {"query", "put", "update"} :
          /\ builders' = Append(builders, NewBuilder(class))
          /\ handles' = Append(handles, NewAddress(builders))
    /\ ncalls' = ncalls + 1
    /\ UNCHANGED <<sent, answers, execResult, history>>
    /\ OrmFrame

\* A fluent call on the builder a caller holds.
OrmCall ==
    /\ ncalls < MaxOrmCalls
    /\ \E h \in 1..Len(handles) :
          \E call \in FluentCalls(builders[handles[h]].class) :
              /\ builders' = Store(builders, handles[h],
                                   ApplyCall(builders[handles[h]].state, schema, call))
              /\ history' = Append(history, [handle |-> h, call |-> call])
    /\ ncalls' = ncalls + 1
    /\ UNCHANGED <<handles, sent, answers, execResult>>
    /\ OrmFrame

\* exec on the builder a caller holds.
OrmExec ==
    /\ ncalls < MaxOrmCalls
    /\ \E h \in 1..Len(handles) :
          LET b == builders[handles[h]]
              request == CommandFor(b.class, b.state, schema)
          IN  /\ sent' = Append(sent, request)
              /\ \E answer \in ClientAnswers(IF b.class = "query"
                                             THEN ClientQuery(table, request)
                                             ELSE WriteOutput) :
                    /\ answers' = Append(answers, answer)
                    /\ execResult' =
                          AwaitSend(answer,
                                    CASE b.class = "query" /\ answer.tag = "return" ->
                                            answer.value.Items
                                      [] b.class = "put" -> Object(b.state.item)
                                      [] OTHER -> Undefined)
              /\ history' = Append(history,
                                   [handle |-> h, call |-> [op |-> "exec", class |-> b.class]])
    /\ ncalls' = ncalls + 1
    /\ UNCHANGED <<builders, handles>>
    /\ OrmFrame

NextOrm == OrmCreate \/ OrmCall \/ OrmExec

SpecOrm == InitOrm /\ [][NextOrm]_vars

(***************************************************************************)
(* Claims about builders of one registry (checked under SpecOrm).          *)
(***************************************************************************)
\* The builder the last call was made on.
Target == handles[Last(history).handle]

\* C20: a fluent call or an exec on one builder leaves the registry as it
\* was and every other builder of the registry as it was, whatever the
\* order of the calls on the builders.
C20_BuildersAreIsolated ==
    [][/\ schema' = schema
       /\ \A a \in DOMAIN builders :
             \/ builders'[a] = builders[a]
             \/ Len(history') > Len(history) /\ Target' = a]_vars

\* C20 witness: two builders of one class, calls on the two interleaved, and
\* the two in different states.
C20_Witness ==
    /\ Len(handles) = 2
    /\ builders[handles[1]].class = builders[handles[2]].class
    /\ Len(history) = 2
    /\ history[1].handle = 2 /\ history[2].handle = 1
    /\ history[1].call.op = "set" /\ history[2].call.op = "keys"
    /\ builders[handles[1]].state # builders[handles[2]].state


(***************************************************************************)
(* Claims about repeated conditions of the query builder (checked under    *)
(* SpecQuery).                                                             *)
(***************************************************************************)
\* The text of the clause of a condition method on a wire name.
ClauseText(op, attrName) ==
    CASE op = "keys" -> <<"#">> \o attrName \o <<" = ", ":">> \o attrName
      [] op = "attributeExists" -> <<"attribute_exists", "(", "#">> \o attrName \o <<")">>
      [] op = "attributeNotExists" ->
            <<"attribute_not_exists", "(", "#">> \o attrName \o <<")">>
      [] op = "attributeType" ->
            <<"attribute_type", "(", "#">> \o attrName \o <<", ", ":">> \o attrName
                \o <<"_type", ")">>
      [] op = "contains" ->
            <<"contains", "(", "#">> \o attrName \o <<", ", ":">> \o attrName
                \o <<"_contains", ")">>
      [] op = "beginsWith" ->
            <<"begins_with", "(", "#">> \o attrName \o <<", ", ":">> \o attrName
                \o <<"_begins", ")">>
      [] op = "size" ->
            <<"size", "(", "#">> \o attrName \o <<")", " ", ">", " ", ":">> \o attrName
                \o <<"_size">>

\* The suffix of the value placeholder of a condition method.
SuffixOf(op) ==
    CASE op = "attributeType" -> <<"_type">>
      [] op = "contains" -> <<"_contains">>
      [] op = "beginsWith" -> <<"_begins">>
      [] op = "size" -> <<"_size">>
      [] OTHER -> <<>>

\* How many clauses of the builder have the text.
Occurrences(builder, text) ==
    Cardinality({ i \in 1..Len(builder.keyConditions) : builder.keyConditions[i] = text })
    + Cardinality({ i \in 1..Len(builder.filterExpressions) :
                      builder.filterExpressions[i] = text })

\* How many calls of the condition method on the field the history has.
CallCount(op, key) ==
    Cardinality({ i \in 1..Len(history) : history[i].op = op /\ history[i].key = key })

\* What the entry of a keys call resolves to.
ResolvedEntry(c, i) ==
    ResolveKey(schema.schemaDefinition[history[c].input[i][1]], history[c].input[i][2])

\* The entries <<call, index>> of the keys calls that the loop reached: those
\* with no failing entry before them in their call.
ReachedEntries(key) ==
    { e \in (1..Len(history)) \X (1..2) :
        /\ history[e[1]].op = "keys"
        /\ e[2] <= Len(history[e[1]].input)
        /\ history[e[1]].input[e[2]][1] = key
        /\ \A j \in 1..(e[2] - 1) : ResolvedEntry(e[1], j).tag = "return" }

\* The reached entries that resolved to a value.
StoredEntries(key) == { e \in ReachedEntries(key) : ResolvedEntry(e[1], e[2]).tag = "return" }

\* The keys of the object are pairwise different.
SingleEntryPerKey(o) == \A i, j \in 1..Len(o) : o[i][1] = o[j][1] => i = j

\* C21: n calls of a condition method with one field leave n clauses of that
\* text in the builder, while the names map and the values map hold one
\* entry per placeholder, the value being the operand of the last call; for
\* keys, each entry of the map the loop reached counts as a call.
C21_DuplicateClausesLastValueWins ==
    /\ SingleEntryPerKey(query.attributeNames)
    /\ SingleEntryPerKey(query.attributeValues)
    /\ \A key \in ConditionFields :
          \A attrName \in {getAttributeName(schema, key)} :
              \A op \in {"attributeExists", "attributeNotExists", "attributeType",
                         "contains", "beginsWith", "size"} :
                  /\ Occurrences(query, ClauseText(op, attrName)) = CallCount(op, key)
                  /\ CallCount(op, key) > 0 =>
                        /\ Get(query.attributeNames, <<"#">> \o attrName) = Str(attrName)
                        /\ op \in {"attributeType", "contains", "beginsWith"} =>
                              Get(query.attributeValues,
                                  <<":">> \o attrName \o SuffixOf(op)) = LastOperand(op, key)
    /\ \A key \in {pk, sk} :
          \A attrName \in {getAttributeName(schema, key)}, stored \in {StoredEntries(key)} :
              /\ Occurrences(query, ClauseText("keys", attrName))
                    = Cardinality(ReachedEntries(key))
              /\ Has(query.attributeValues, <<":">> \o attrName) <=> stored # {}
              /\ stored # {} =>
                    LET last == CHOOSE e \in stored :
                                    \A f \in stored :
                                        f[1] < e[1] \/ (f[1] = e[1] /\ f[2] <= e[2])
                    IN  Returned(Get(query.attributeValues, <<":">> \o attrName))
                            = ResolvedEntry(last[1], last[2])

\* C21 witness: contains was called twice on one field with two operands;
\* the filter list has the clause twice and the values map has one entry,
\* the second operand.
C21_Witness ==
    /\ Len(history) = 2
    /\ history[1].op = "contains" /\ history[2].op = "contains"
    /\ history[1].key = history[2].key
    /\ history[1].operand # history[2].operand
    /\ Len(query.filterExpressions) = 2
    /\ query.filterExpressions[1] = query.filterExpressions[2]
    /\ Len(query.attributeValues) = 1
    /\ query.attributeValues[1][2] = history[2].operand


(***************************************************************************)
(* The legacy QueryBuilder (src/queryBuilder.ts), which the legacy Schema  *)
(* creates from its definition and options.  It has one clause list, and   *)
(* an input object that limit and indexName write and build completes.     *)
(***************************************************************************)
NewLegacyQueryBuilder ==
    [keyConditions |-> <<>>, attributeNames |-> EmptyObject,
     attributeValues |-> EmptyObject, input |-> EmptyObject]

\* The legacy QueryBuilder.getAttributeName(key)
LegacyGetAttributeName(sch, key) ==
    LET field == FieldOf(sch.schemaDefinition, key)
        attrName == IF field # Undefined /\ field.attrName # Undefined
                    THEN field.attrName.str ELSE key
    IN  IF SnakeOption(sch.schemaOptions) THEN toSnakeCase(attrName) ELSE attrName

\* { S: value }
StringValue(value) == Object(<< << <<"S">>, Str(value) >> >>)

\* One round of the loop of the legacy keys.
LegacyKeysEntry(builder, sch, key) ==
    LET attrName == LegacyGetAttributeName(sch, key)
    IN  [builder EXCEPT
            !.keyConditions = Append(@, NamePlaceholder(attrName) \o <<" = ">>
                                          \o ValuePlaceholder(attrName, <<>>)),
            !.attributeNames = Put(@, NamePlaceholder(attrName), Str(attrName)),
            !.attributeValues = Put(@, ValuePlaceholder(attrName, <<>>), StringValue(key))]

\* The legacy keys(k, value): `for (const key in {k, value})` runs over the
\* property names "k" and "value" of the literal, whatever the arguments are.
LegacyKeysCall(builder, sch, k, value) ==
    LegacyKeysEntry(LegacyKeysEntry(builder, sch, <<"k">>), sch, <<"value">>)

\* The legacy attributeExists(key) and attributeNotExists(key)
LegacyUnary(builder, sch, fn, key) ==
    LET attrName == LegacyGetAttributeName(sch, key)
    IN  [builder EXCEPT
            !.keyConditions =
                Append(@, <<fn, "(">> \o NamePlaceholder(attrName) \o <<")">>),
            !.attributeNames = Put(@, NamePlaceholder(attrName), Str(attrName))]

\* The legacy attributeType, contains and beginsWith: fn is the function
\* name and suffix the suffix of the value placeholder.
LegacyBinary(builder, sch, fn, suffix, key, operand) ==
    LET attrName == LegacyGetAttributeName(sch, key)
    IN  [builder EXCEPT
            !.keyConditions =
                Append(@, <<fn, "(">> \o NamePlaceholder(attrName)
                            \o <<", ">> \o ValuePlaceholder(attrName, suffix) \o <<")">>),
            !.attributeNames = Put(@, NamePlaceholder(attrName), Str(attrName)),
            !.attributeValues =
                Put(@, ValuePlaceholder(attrName, suffix), StringValue(operand))]

\* The legacy size(key, operator, value)
LegacySize(builder, sch, key, operator, value) ==
    LET attrName == LegacyGetAttributeName(sch, key)
    IN  [builder EXCEPT
            !.keyConditions =
                Append(@, <<"size", "(">> \o NamePlaceholder(attrName)
                            \o <<")", " ", operator, " ">>
                            \o ValuePlaceholder(attrName, <<"_size">>)),
            !.attributeNames = Put(@, NamePlaceholder(attrName), Str(attrName)),
            !.attributeValues =
                Put(@, ValuePlaceholder(attrName, <<"_size">>),
                    Object(<< << <<"N">>, Str(NumberToString(value)) >> >>))]

\* A reference to a map of the builder, as build stores it in the input.
Reference(field) == [type |-> "reference", to |-> field]

\* The legacy build(): completes this.input and returns it.
LegacyBuild(builder) ==
    LET i1 == IF Len(builder.keyConditions) > 0
              THEN Put(builder.input, <<"KeyConditionExpression">>,
                       Str(Join(builder.keyConditions, <<" and ">>)))
              ELSE builder.input
        i2 == IF Len(ObjectKeys(builder.attributeNames)) > 0
              THEN Put(i1, <<"ExpressionAttributeNames">>, Reference("attributeNames"))
              ELSE i1
        i3 == IF Len(ObjectKeys(builder.attributeValues)) > 0
              THEN Put(i2, <<"ExpressionAttributeValues">>, Reference("attributeValues"))
              ELSE i2
    IN  [builder EXCEPT !.input = i3]

\* The input object as a reader of it sees it: the maps it refers to are
\* the maps of the builder.
LegacyInput(builder) ==
    [i \in 1..Len(builder.input) |->
        IF builder.input[i][2].type = "reference"
        THEN <<builder.input[i][1], Object(builder[builder.input[i][2].to])>>
        ELSE builder.input[i]]

InitLegacyQuery ==
    /\ schema \in BuilderSchemas
    /\ query = NewLegacyQueryBuilder
    /\ table = NotCalled
    /\ sent = <<>>
    /\ history = <<>>
    /\ execResult = NotCalled
    /\ ncalls = 0
    /\ answers = <<>>
    /\ IdleTemplate /\ IdleSnake /\ IdleName /\ IdleUpdate /\ IdleGet
    /\ IdlePut /\ IdleDelete /\ IdleTransaction /\ IdleRegistry /\ IdleOrm

\* What a fluent call on the legacy builder leaves alone.
LegacyFrame ==
    UNCHANGED <<templateVars, snakeVars, schema, nameVars, writeVars, registryVars,
                ormVars, update, get, table, sent, answers, execResult>>

LegacyKeys ==
    /\ ncalls < MaxQueryCalls
    /\ query' = LegacyKeysCall(query, schema, pk, <<"USER#", "42">>)
    /\ history' = Append(history, [op |-> "keys", key |-> pk,
                                   operand |-> Str(<<"USER#", "42">>)])
    /\ ncalls' = ncalls + 1
    /\ LegacyFrame

LegacyAttributeExists ==
    /\ ncalls < MaxQueryCalls
    /\ \E key \in ConditionFields :
          /\ query' = LegacyUnary(query, schema, "attribute_exists", key)
          /\ history' = Append(history, [op |-> "attributeExists", key |-> key])
    /\ ncalls' = ncalls + 1
    /\ LegacyFrame

LegacyAttributeNotExists ==
    /\ ncalls < MaxQueryCalls
    /\ \E key \in ConditionFields :
          /\ query' = LegacyUnary(query, schema, "attribute_not_exists", key)
          /\ history' = Append(history, [op |-> "attributeNotExists", key |-> key])
    /\ ncalls' = ncalls + 1
    /\ LegacyFrame

LegacyAttributeType ==
    /\ ncalls < MaxQueryCalls
    /\ \E key \in ConditionFields :
          /\ query' = LegacyBinary(query, schema, "attribute_type", <<"_type">>, key, <<"S">>)
          /\ history' = Append(history, [op |-> "attributeType", key |-> key,
                                         operand |-> Str(<<"S">>)])
    /\ ncalls' = ncalls + 1
    /\ LegacyFrame

LegacyContains ==
    /\ ncalls < MaxQueryCalls
    /\ \E key \in ConditionFields, operand \in ContainsOperands :
          /\ query' = LegacyBinary(query, schema, "contains", <<"_contains">>, key, operand)
          /\ history' = Append(history, [op |-> "contains", key |-> key,
                                         operand |-> Str(operand)])
    /\ ncalls' = ncalls + 1
    /\ LegacyFrame

LegacyBeginsWith ==
    /\ ncalls < MaxQueryCalls
    /\ \E key \in ConditionFields :
          /\ query' = LegacyBinary(query, schema, "begins_with", <<"_begins">>, key,
                                   <<"ORDER#">>)
          /\ history' = Append(history, [op |-> "beginsWith", key |-> key,
                                         operand |-> Str(<<"ORDER#">>)])
    /\ ncalls' = ncalls + 1
    /\ LegacyFrame

LegacySizeCall ==
    /\ ncalls < MaxQueryCalls
    /\ \E key \in ConditionFields :
          /\ query' = LegacySize(query, schema, key, ">", 3)
          /\ history' = Append(history, [op |-> "size", key |-> key, operator |-> ">",
                                         operand |-> Num(3)])
    /\ ncalls' = ncalls + 1
    /\ LegacyFrame

\* The legacy limit(limit)
LegacyLimit ==
    /\ ncalls < MaxQueryCalls
    /\ \E limit \in {0, 5} :
          /\ query' = [query EXCEPT !.input = Put(@, <<"Limit">>, Num(limit))]
          /\ history' = Append(history, [op |-> "limit", limit |-> limit])
    /\ ncalls' = ncalls + 1
    /\ LegacyFrame

\* The legacy indexName(indexName)
LegacyIndexName ==
    /\ ncalls < MaxQueryCalls
    /\ query' = [query EXCEPT !.input = Put(@, <<"IndexName">>, Str(<<"gsi1">>))]
    /\ history' = Append(history, [op |-> "index", indexName |-> <<"gsi1">>])
    /\ ncalls' = ncalls + 1
    /\ LegacyFrame

\* The legacy build(): the caller gets the input object.
LegacyBuildCall ==
    /\ ncalls < MaxQueryCalls
    /\ query' = LegacyBuild(query)
    /\ execResult' = Returned(Object(LegacyInput(LegacyBuild(query))))
    /\ history' = Append(history, [op |-> "build"])
    /\ ncalls' = ncalls + 1
    /\ UNCHANGED <<templateVars, snakeVars, schema, nameVars, writeVars, registryVars,
                   ormVars, update, get, table, sent, answers>>

NextLegacyQuery ==
    \/ LegacyKeys \/ LegacyAttributeExists \/ LegacyAttributeNotExists
    \/ LegacyAttributeType \/ LegacyContains \/ LegacyBeginsWith
    \/ LegacySizeCall \/ LegacyLimit \/ LegacyIndexName \/ LegacyBuildCall

SpecLegacyQuery == InitLegacyQuery /\ [][NextLegacyQuery]_vars

(***************************************************************************)
(* Claims about the clause lists of the query builders (checked under      *)
(* SpecLegacyQuery and SpecQuery).                                         *)
(***************************************************************************)
\* The request the query builder at hand renders now: what exec of the
\* QueryBuilder sends, what build of the legacy QueryBuilder returns.
RenderedQuery ==
    IF "input" \in DOMAIN query THEN LegacyInput(LegacyBuild(query))
    ELSE QueryCommand(query, schema).input

\* The function name that the clause of a condition method starts with.
FunctionOf(op) ==
    CASE op = "attributeExists" -> "attribute_exists"
      [] op = "attributeNotExists" -> "attribute_not_exists"
      [] op = "attributeType" -> "attribute_type"
      [] op = "contains" -> "contains"
      [] op = "beginsWith" -> "begins_with"
      [] op = "keys" -> " = "

\* How many times the expression of the request has the chunk; 0 when the
\* request has no such expression.
CountIn(input, expression, chunk) ==
    IF Has(input, expression)
    THEN Cardinality({ i \in 1..Len(Get(input, expression).str) :
                         Get(input, expression).str[i] = chunk })
    ELSE 0

\* C22: every clause of keys and beginsWith renders in KeyConditionExpression
\* and not in FilterExpression; every clause of contains, attributeExists,
\* attributeNotExists and attributeType renders in FilterExpression, once
\* per call, and never in KeyConditionExpression.
C22_ClausesLandInTheirList ==
    /\ \A op \in {"contains", "attributeExists", "attributeNotExists", "attributeType"} :
          /\ CountIn(RenderedQuery, FilterExpression, FunctionOf(op))
                = Len(CallsOf(op))
          /\ CountIn(RenderedQuery, KeyConditionExpression, FunctionOf(op)) = 0
    /\ CountIn(RenderedQuery, KeyConditionExpression, FunctionOf("beginsWith"))
          = Len(CallsOf("beginsWith"))
    /\ CountIn(RenderedQuery, FilterExpression, FunctionOf("beginsWith")) = 0
    /\ CallsOf("keys") # <<>> =>
          CountIn(RenderedQuery, KeyConditionExpression, FunctionOf("keys")) > 0
    /\ CountIn(RenderedQuery, FilterExpression, FunctionOf("keys")) = 0


(***************************************************************************)
(* Claims about a call that aborts (checked under SpecQuery).              *)
(***************************************************************************)
\* C23: a keys call that aborts with the error of generate leaves the
\* accumulated state of the builder (clause lists, names map, values map) as
\* it was before the call, also when the failing field is not the first
\* entry of the map.
C23_AbortedCallIsAllOrNothing ==
    [][(/\ Len(history') = Len(history) + 1
        /\ Last(history)'.op = "keys"
        /\ Last(history)'.outcome.tag = "throw") => query' = query]_vars


(***************************************************************************)
(* A transaction whose members are called after they were added: the put   *)
(* and the update builder of InitTransaction, with calls on them between   *)
(* with(...) and exec.                                                     *)
(***************************************************************************)
\* The arguments of set on a member.
MemberSetInputs == {<<status, Str(<<"open">>)>>, <<orderDate, Str(<<"2024-01-02">>)>>}

\* The arguments of keys on a member.
MemberKeysInputs == { << <<pk, UserId42>>, <<sk, OrderId7>> >>, << <<sk, NoVariables>> >> }

MemberFrame ==
    UNCHANGED <<templateVars, snakeVars, schema, nameVars, registryVars, ormVars,
                get, query, delete, transaction, table, sent, answers, execResult>>

\* put.set(key, value) on the put builder
MemberPutSet ==
    /\ ncalls < MaxTransactionCalls
    /\ \E in \in MemberSetInputs :
          LET r == CommandSet(put.item, schema, in[1], in[2])
          IN  /\ put' = [put EXCEPT !.item = r.item]
              /\ history' = Append(history, [op |-> "set", builder |-> "put",
                                             stored |-> r.stored])
    /\ ncalls' = ncalls + 1
    /\ UNCHANGED update
    /\ MemberFrame

\* update.set(key, value) on the update builder
MemberUpdateSet ==
    /\ ncalls < MaxTransactionCalls
    /\ \E in \in MemberSetInputs :
          LET r == CommandSet(update.item, schema, in[1], in[2])
          IN  /\ update' = [update EXCEPT !.item = r.item]
              /\ history' = Append(history, [op |-> "set", builder |-> "update",
                                             stored |-> r.stored])
    /\ ncalls' = ncalls + 1
    /\ UNCHANGED put
    /\ MemberFrame

\* update.keys(input) on the update builder
MemberUpdateKeys ==
    /\ ncalls < MaxTransactionCalls
    /\ \E input \in MemberKeysInputs :
          LET r == KeysLoop(update.updateKeys, schema, input, 1, <<>>)
          IN  /\ update' = [update EXCEPT !.updateKeys = r.keys]
              /\ history' = Append(history, [op |-> "keys", builder |-> "update",
                                             stored |-> r.stored])
    /\ ncalls' = ncalls + 1
    /\ UNCHANGED put
    /\ MemberFrame

NextMembers ==
    \/ MemberPutSet \/ MemberUpdateSet \/ MemberUpdateKeys
    \/ TransactionWith \/ TransactionExec

SpecMembers == InitTransaction /\ [][NextMembers]_vars

(***************************************************************************)
(* Claims about the members of a transaction (checked under SpecMembers).  *)
(***************************************************************************)
\* The assignments that made the map.
AsStores(o) == [i \in 1..Len(o) |-> [attrName |-> o[i][1], value |-> o[i][2]]]

\* The assignments of the calls of the kind on the builder, oldest first.
StoresOn(op, builder) ==
    StoredBy(SelectSeq(history, LAMBDA c : c.op = op /\ c.builder = builder))

\* The entries of the map that the assignments made when the builder was
\* configured and those of all the calls since leave.
Current(configured, op, builder) ==
    Accumulated(AsStores(configured) \o StoresOn(op, builder))

\* C24: the TransactItems that exec of the transaction submits hold, for
\* every member, the request of the member as it is when exec runs: the Item
\* of a put member and the Key and the SET list of an update member include
\* what set and keys calls made on the member after with(...).
C24_MembersReadAtExec ==
    (history # <<>> /\ Last(history) = [op |-> "exec", builder |-> "transaction"]) =>
        LET withs == CallsOf("with")
            items == Last(sent).TransactItems
        IN  /\ Len(items) = Len(withs)
            /\ \A i \in 1..Len(withs) :
                  /\ withs[i].member = "put" =>
                        /\ items[i].command = "Put"
                        /\ Pairs(items[i].Item)
                              = Current(PutOfStatus(schema).item, "set", "put")
                  /\ withs[i].member = "update" =>
                        /\ items[i].command = "Update"
                        /\ Pairs(items[i].Key)
                              = Current(UpdateOfStatus(schema).updateKeys, "keys", "update")
                        /\ Pairs(items[i].ExpressionAttributeValues)
                              = { << <<":">> \o e[1], e[2] >> :
                                    e \in Current(UpdateOfStatus(schema).item,
                                                  "set", "update") }
                  /\ withs[i].member = "delete" => items[i].command = "Delete"

\* C24 witness: the put builder was added, then a field was set on it, then
\* the transaction was executed; the submitted Item has the field.
C24_Witness ==
    /\ Len(history) = 3
    /\ history[1] = [op |-> "with", member |-> "put"]
    /\ history[2].op = "set" /\ history[2].builder = "put"
    /\ history[3] = [op |-> "exec", builder |-> "transaction"]
    /\ Len(PutOfStatus(schema).item) = 1
    /\ Len(Last(sent).TransactItems[1].Item) = 2
    /\ Last(sent).TransactItems[1].Item[2][2] = history[2].stored[1].value


(***************************************************************************)
(* Claims about exec and the calls after it (checked under SpecQuery).     *)
(***************************************************************************)
\* The history holds an exec.
Executed == \E i \in 1..Len(history) : history[i].op = "exec"

\* C25: exec leaves the clause lists, the maps, the limit and the index of
\* the builder as they were and sends the request rendered from them; an
\* exec that follows an exec sends the same request again; and a fluent call
\* after an exec changes the builder as it does before one, so that the next
\* exec sends the request with its clause.
C25_ExecOnlyReads ==
    [][/\ (Len(history') = Len(history) + 1 /\ Last(history)'.op = "exec") =>
             /\ query' = query
             /\ Len(sent') = Len(sent) + 1
             /\ Last(sent)' = QueryCommand(query, schema)
             /\ (history # <<>> /\ Last(history).op = "exec") => Last(sent)' = Last(sent)
       /\ (Executed /\ Len(history') = Len(history) + 1
              /\ Last(history)'.op = "contains") =>
             /\ Len(query'.filterExpressions) = Len(query.filterExpressions) + 1
             /\ QueryCommand(query', schema) # Last(sent)]_vars

\* C25 witness: exec, then contains, then exec: the second request has the
\* filter clause that the first one has not.
C25_Witness ==
    /\ Len(history) = 3
    /\ history[1].op = "exec" /\ history[2].op = "contains" /\ history[3].op = "exec"
    /\ ~Has(sent[1].input, FilterExpression)
    /\ Has(sent[2].input, FilterExpression)
    /\ Len(query.filterExpressions) = 1


(***************************************************************************)
(* Claims about the SET list of the update builder (checked under          *)
(* SpecUpdate).                                                            *)
(***************************************************************************)
\* The expression has an assignment "#f = :f".
HasAssignment(expression) == \E i \in 1..Len(expression) : expression[i] = " = "

\* C26: every Update request of the update builder, the one its command
\* renders once the builder was called and every one that exec has sent, has
\* an UpdateExpression with at least one assignment.
C26_SetListNeverEmpty ==
    /\ history # <<>> => HasAssignment(UpdateCommand(update, schema).UpdateExpression)
    /\ \A j \in 1..Len(sent) : HasAssignment(sent[j].UpdateExpression)

=============================================================================
